---- MODULE Spec2Model ----
(***************************************************************************)
(* Live Search Orchestrator: task lifecycle, research graph and SSE        *)
(* gateway (src/python_services/live_search_service).                      *)
(*                                                                         *)
(* The service runs on one asyncio event loop.  A coroutine runs without   *)
(* interruption from one suspension point to the next, so every action     *)
(* below is one such run of a coroutine or one HTTP handler.  The event    *)
(* queues are unbounded asyncio.Queue objects: put() never suspends.       *)
(***************************************************************************)
EXTENDS Integers, Sequences, FiniteSets, TLC

\* ------------------------------------------------------------------ bounds
MaxStreams == 2
MaxCancelCalls == 1
MaxQueries == 1
MaxProviders == 2
MaxUrls == 1
MaxTime == 3
MaxDuration == 2
MaxElapsed == 2
MaxRetries == 1
MaxChunks == 2
MaxCalls == 2
MaxChars == 2
MaxUrlLen == 2
MaxListed == 2
MaxTextLen == 3
MaxExisting == 1
MaxHopQueries == 2

\* processes that initialize a ContentVector on one database directory
MaxProcs == 3

\* bytes of an SSE stream
MaxBytes == 4

\* references to one domain
MaxReferences == 2

\* task ids handed out by create_research_task (uuid4); the behaviours of
\* Spec create one task, those of SpecFrame two
TaskIds == {"t1", "t2"}
OneTask == {"t1"}
StreamIds == 1..MaxStreams
Queries == 1..MaxQueries
Providers == 1..MaxProviders
FallbackProviders == {MaxProviders + 1}
AllProviders == Providers \cup FallbackProviders
Urls == 1..MaxUrls

\* ------------------------------------------------------------------ events
Nodes ==
  {"initialize_task", "generate_search_queries", "web_search",
   "process_content", "synthesize_report", "finalize_task"}

\* models.SSEEvent: event_type and the payload's stage; "node" records which
\* graph node (or "runtime" for run_graph_and_process_events) did the put.
SSEEvent(type, stage, node) == [type |-> type, stage |-> stage, node |-> node]

NoneSentinel == SSEEvent("None", "", "runtime")

TerminalTypes == {"complete", "error", "cancelled"}

IsTerminal(e) == e.type \in TerminalTypes

\* --------------------------------------------------------------- variables
VARIABLES
  pc,                      \* position of the background task (run_graph_and_process_events)
  must_cancel,             \* task.cancel() called, CancelledError not yet delivered
  task_result,             \* outcome of the asyncio.Task: pending/returned/cancelled/exception
  is_cancelled_flag,       \* OverallState.is_cancelled_flag (asyncio.Event)
  state,                   \* OverallState channels used by the executed graph
  local,                   \* locals of the node that is suspended
  content_vector_status,   \* ContentVector.status of the shared service instance
  ignored_providers,       \* rate-limit ignore list (providers currently ignored)
  queue,                   \* items in the task's asyncio.Queue
  enqueued,                \* every item ever put on the task's queue, in order
  task_output_queues,      \* registry: task ids that have a queue entry
  active_tasks,            \* registry: task ids that have a task entry
  callback,                \* position of _task_done_callback_async
  stream,                  \* per stream request: position of event_generator
  stream_yielded,          \* per stream: what it has yielded so far
  stream_exit,             \* per stream: why the generator left its loop
  cancel_requests,         \* number of POST /cancel calls that called task.cancel()
  now,                     \* datetime.now(timezone.utc), in units of the model
  ignore_file,             \* rate_limit_ignore_list.json: provider -> expiry entry
  last_call,               \* the last RateLimitManager call and what it returned
  serial_file,             \* the registry after the completed calls, one after another
  max_deadline,            \* per provider: latest end of a mark since remove/clear
  last_deadline,           \* per provider: end of the last mark since remove/clear
  scrape,                  \* per task and URL: the _run_scrapy_spider call and its subprocess
  llm,                     \* the LLM adapter: one _execute_llm_call and the call cache
  cite,                    \* the citation functions' and the report assembly's inputs and results
  trust,                   \* domain_trust_profiles and what _ensure_domain_profile returned last
  fts,                     \* .fts_index.lock: the path, its inodes, the processes using FileLock
  sse,                     \* the local model's SSE stream and what the adapter read from it
  node_log                 \* per node: flag at start, outcome, LLM result

vars ==
  <<pc, must_cancel, task_result, is_cancelled_flag, state, local,
    content_vector_status, ignored_providers, queue, enqueued,
    task_output_queues, active_tasks, callback, stream, stream_yielded,
    stream_exit, cancel_requests, node_log,
    now, ignore_file, last_call, serial_file, max_deadline, last_deadline,
    scrape, llm, cite, trust, fts, sse>>

taskVars ==
  <<pc, must_cancel, task_result, is_cancelled_flag, state, local,
    content_vector_status, ignored_providers, node_log>>

streamVars == <<stream, stream_yielded, stream_exit>>

endpointVars == <<cancel_requests>>

\* RateLimitManager with its file and clock.  The graph specifications keep
\* only the set ignored_providers of the providers that are ignored during
\* a task; SpecRegistry has the file with its expiry times.
registryVars == <<now, ignore_file, last_call, serial_file, max_deadline, last_deadline>>

\* The points at which the background task is suspended in an await that
\* can really block, so that a pending CancelledError is thrown there.
SuspensionPoints ==
  {"at_initialize_task", "init_await_vector",
   "at_generate_search_queries", "gen_await_llm",
   "at_web_search", "ws_provider_wait",
   "at_process_content", "pc_gather",
   "at_synthesize_report", "syn_await_llm",
   "at_finalize_task"}

EmptyState ==
  [current_queries_for_hop |-> <<>>,
   executed_search_queries |-> {},
   search_results_this_hop |-> {},
   processed_chunks_this_hop |-> {},
   visited_urls |-> {}]

EmptyLocal ==
  [queries_left |-> <<>>, query |-> 0,
   providers_left |-> <<>>, provider |-> 0,
   all_search_metadata |-> {}, provider_errors |-> {},
   results_this_node |-> {}, executed_this_pass |-> {},
   urls_being_scraped |-> {}, passes_started |-> <<>>]

\* What one event_generator has yielded: whether any queue event at all,
\* how many terminal events, what it yielded last (an event type or
\* "heartbeat"), and whether it has yielded the queue's events from the
\* first one on without a gap (no other consumer took one in between).
NothingYielded == [some |-> FALSE, terminals |-> 0, last |-> "none", fifo |-> TRUE]

Yield(y, e, none_taken_by_others) ==
  [some |-> TRUE,
   terminals |-> y.terminals + (IF IsTerminal(e) THEN 1 ELSE 0),
   last |-> e.type,
   fifo |-> y.fifo /\ none_taken_by_others]

\* _execute_llm_call: what the call was given (path, format), where it is
\* (pc), the loop variable attempt, how many provider attempts and back-off
\* sleeps it has made, the cancellation event it was given (flag, and
\* whether the event was set while the SSE stream was being read), the
\* chunks read from the stream, the value returned and self.call_cache.
Formats == {"json", "text"}

LlmPaths == {"xai", "local", "unified"}

NoResult == [output |-> "unset", error |-> "unset"]

EmptyCache == [k \in LlmPaths \X Formats |-> NoResult]

IdleLlm ==
  [pc |-> "idle", path |-> "none", format |-> "text", attempt |-> 0,
   attempts |-> 0, sleeps |-> 0, flag |-> FALSE, flag_set_in_stream |-> FALSE,
   chunks |-> 0, result |-> NoResult, call_cache |-> EmptyCache, calls |-> 0]

LlmAtRest == llm = IdleLlm

\* No citation function has been called and no report is being assembled.
IdleCite ==
  [op |-> "none", urls |-> <<>>, existing_map |-> <<>>, text |-> <<>>,
   mapping |-> <<>>, processed |-> <<>>, citations |-> <<>>,
   chunks |-> {}, draft |-> <<>>, events |-> <<>>,
   report_with_short_markers |-> <<>>, final_report_md |-> <<>>,
   report_sources |-> <<>>, task_date_context |-> FALSE]

CiteAtRest == cite = IdleCite

\* ----------------------------------------------------- domain trust store
\* A domain is the list of its labels; *.tld patterns are keys of the
\* table as well.  Scores are in thousandths (round(..., 3)).
TrustDomains == {<<"site", "com">>, <<"site", "org">>}

TldPatterns == {<<"*", "org">>}

TrustKeys == TrustDomains \cup TldPatterns

NoRow ==
  [present |-> FALSE, trust_score |-> 0, is_https |-> "None",
   domain_age_days |-> 0 - 1, reference_count |-> 0, tld_type_bonus |-> 0]

NoProfile == [domain |-> <<>>, trust_score |-> 0, source_trust_type |-> "none"]

IdleTrust == [table |-> [k \in TrustKeys |-> NoRow], returned |-> NoProfile]

TrustAtRest == trust = IdleTrust

\* ------------------------------------------------------------- FileLock
\* the processes that initialize a ContentVector on the same vector_db_uri
Procs == 1..MaxProcs

\* No lock file, no process has entered "with FileLock(lock_file)" yet.
\* path is the inode the lock file's name refers to (0: no such file),
\* holder[i] the process whose open file holds the flock on inode i.
IdleFts ==
  [path |-> 0, inodes |-> 0, holder |-> [i \in 1..MaxProcs |-> 0],
   proc |-> [p \in Procs |-> [pc |-> "start", fd |-> 0]]]

FtsAtRest == fts = IdleFts

\* ------------------------------------------------- local model SSE stream
IdleSse ==
  [pc |-> "none", stream |-> <<>>, chunks |-> <<>>, buffer |-> <<>>,
   current_accumulated_content |-> <<>>]

SseAtRest == sse = IdleSse

\* One _run_scrapy_spider call: where the coroutine is (co), the state of
\* its subprocess (proc), the time spent in the polling loop (elapsed) and
\* the item the call returned.
NoScrape == [co |-> "none", proc |-> "none", elapsed |-> 0, item |-> "none"]

ScrapeAtRest == scrape = [t \in TaskIds |-> [u \in Urls |-> NoScrape]]

\* an entry of the file: the expiry written by isoformat(), or a string
\* that datetime.fromisoformat() rejects (ValueError)
isoformat(t) == [iso |-> TRUE, at |-> t]

NotIso == [iso |-> FALSE, at |-> 0]

\* no file, or a file holding {}
EmptyFile == [q \in {} |-> NotIso]

NoCall == [op |-> "none", provider |-> 0, at |-> 0, returned |-> EmptyFile,
           answer |-> FALSE, resaved |-> FALSE]

RegistryAtRest ==
  /\ now = 0
  /\ ignore_file = EmptyFile
  /\ last_call = NoCall
  /\ serial_file = EmptyFile
  /\ max_deadline = [q \in Providers |-> 0]
  /\ last_deadline = [q \in Providers |-> 0]
  /\ ScrapeAtRest
  /\ LlmAtRest
  /\ CiteAtRest
  /\ TrustAtRest
  /\ FtsAtRest
  /\ SseAtRest

\* The rate-limit file at service start, as far as a task can tell the
\* difference: no provider ignored, the caller's providers ignored (the
\* fallback list is used), every provider ignored (no call is made).
\* SpecSearchPass starts from every subset.
IgnoreListsAtStart == {{}, Providers, AllProviders}

EmptyNodeLog ==
  [n \in Nodes |-> [start_flag |-> "notrun", outcome |-> "notrun", llm |-> "none"]]

Init ==
  /\ pc = [t \in TaskIds |-> "none"]
  /\ must_cancel = [t \in TaskIds |-> FALSE]
  /\ task_result = [t \in TaskIds |-> "pending"]
  /\ is_cancelled_flag = [t \in TaskIds |-> FALSE]
  /\ state = [t \in TaskIds |-> EmptyState]
  /\ local = [t \in TaskIds |-> EmptyLocal]
  /\ content_vector_status \in {"ready", "uninitialized"}
  /\ ignored_providers \in IgnoreListsAtStart
  /\ queue = [t \in TaskIds |-> <<>>]
  /\ enqueued = [t \in TaskIds |-> <<>>]
  /\ task_output_queues = {}
  /\ active_tasks = {}
  /\ callback = [t \in TaskIds |-> "none"]
  /\ stream = [t \in TaskIds |-> [s \in StreamIds |-> "none"]]
  /\ stream_yielded = [t \in TaskIds |-> [s \in StreamIds |-> NothingYielded]]
  /\ stream_exit = [t \in TaskIds |-> [s \in StreamIds |-> "none"]]
  /\ cancel_requests = [t \in TaskIds |-> 0]
  /\ node_log = [t \in TaskIds |-> EmptyNodeLog]
  /\ RegistryAtRest

\* ------------------------------------------------------------ put helpers
\* await output_queue.put(e1); await output_queue.put(e2); ...
Put(t, evs) ==
  /\ queue' = [queue EXCEPT ![t] = @ \o evs]
  /\ enqueued' = [enqueued EXCEPT ![t] = @ \o evs]

\* finally-block of run_graph_and_process_events: the sentinel is put only
\* while the task id is still in task_output_queues.
SentinelIfRegistered(t) ==
  IF t \in task_output_queues THEN <<NoneSentinel>> ELSE <<>>

NodeStarted(log, n, flag) ==
  [log EXCEPT ![n].start_flag = IF flag THEN "set" ELSE "unset",
              ![n].outcome = "running"]

NodeEnded(log, n, outcome) == [log EXCEPT ![n].outcome = outcome]

RunningNode(t) ==
  IF \E n \in Nodes : node_log[t][n].outcome = "running"
  THEN CHOOSE n \in Nodes : node_log[t][n].outcome = "running"
  ELSE "runtime"

\* except Exception / finally of run_graph_and_process_events, reached when
\* node n raises: an error event (stage graph_runtime_error), the sentinel,
\* and the coroutine returns normally.
GraphRaises(t, log, n, evsBefore) ==
  /\ Put(t, evsBefore
            \o <<SSEEvent("error", "graph_runtime_error", "runtime")>>
            \o SentinelIfRegistered(t))
  /\ pc' = [pc EXCEPT ![t] = "done"]
  /\ task_result' = [task_result EXCEPT ![t] = "returned"]
  /\ node_log' = [node_log EXCEPT ![t] = NodeEnded(log, n, "raised")]


\* Positions inside web_search_node between two awaits that do not block:
\* the event loop runs nothing else while the task is at one of them.
MicroPoints == {"ws_loop", "ws_providers"}

LoopIdle == \A t \in TaskIds : pc[t] \notin MicroPoints

\* ------------------------------------------------- POST /research_tasks
\* create_research_task: registers the queue and the task.  The first step
\* of the new task is already scheduled when the handler returns, so it runs
\* before any later request: the task is created at the graph's first node.
CreateTask(t) ==
  /\ LoopIdle
  /\ pc[t] = "none"
  /\ task_output_queues' = task_output_queues \cup {t}
  /\ active_tasks' = active_tasks \cup {t}
  /\ pc' = [pc EXCEPT ![t] = "at_initialize_task"]
  /\ callback' = [callback EXCEPT ![t] = "waiting"]
  /\ UNCHANGED <<must_cancel, task_result, is_cancelled_flag, state, local,
                 content_vector_status, ignored_providers, queue, enqueued,
                 node_log>>
  /\ UNCHANGED streamVars
  /\ UNCHANGED endpointVars

\* ------------------------------------------------------ initialize_task
InitializeTask(t) ==
  /\ pc[t] = "at_initialize_task"
  /\ ~must_cancel[t]
  /\ is_cancelled_flag' = [is_cancelled_flag EXCEPT ![t] = FALSE]
  /\ state' = [state EXCEPT ![t] = EmptyState]
  /\ IF content_vector_status # "ready"
     THEN /\ Put(t, <<SSEEvent("progress", "graph_initialization", "initialize_task")>>)
          /\ pc' = [pc EXCEPT ![t] = "init_await_vector"]
          /\ node_log' = [node_log EXCEPT ![t] =
                            NodeStarted(@, "initialize_task", is_cancelled_flag[t])]
     ELSE /\ Put(t, <<SSEEvent("progress", "graph_initialization", "initialize_task"),
                      SSEEvent("progress", "pre_flight_vector_store_ready", "initialize_task"),
                      SSEEvent("progress", "pre_flight_search_engines_complete", "initialize_task")>>)
          /\ pc' = [pc EXCEPT ![t] = "at_generate_search_queries"]
          /\ node_log' = [node_log EXCEPT ![t] =
                            NodeEnded(NodeStarted(@, "initialize_task", is_cancelled_flag[t]),
                                      "initialize_task", "returned")]
  /\ UNCHANGED <<must_cancel, task_result, local, content_vector_status,
                 ignored_providers, task_output_queues, active_tasks, callback>>
  /\ UNCHANGED streamVars
  /\ UNCHANGED endpointVars

\* content_vector.initialize_resources() has returned: True, or False with
\* status "error" (then the fatal error event and is_cancelled_flag.set()).
InitializeVector(t, ok) ==
  /\ pc[t] = "init_await_vector"
  /\ ~must_cancel[t]
  /\ IF ok
     THEN /\ content_vector_status' = "ready"
          /\ Put(t, <<SSEEvent("progress", "pre_flight_vector_store_ready", "initialize_task"),
                      SSEEvent("progress", "pre_flight_search_engines_complete", "initialize_task")>>)
          /\ UNCHANGED is_cancelled_flag
     ELSE /\ content_vector_status' = "error"
          /\ Put(t, <<SSEEvent("error", "pre_flight_vector_store", "initialize_task")>>)
          /\ is_cancelled_flag' = [is_cancelled_flag EXCEPT ![t] = TRUE]
  /\ pc' = [pc EXCEPT ![t] = "at_generate_search_queries"]
  /\ node_log' = [node_log EXCEPT ![t] = NodeEnded(@, "initialize_task", "returned")]
  /\ UNCHANGED <<must_cancel, task_result, state, local, ignored_providers,
                 task_output_queues, active_tasks, callback>>
  /\ UNCHANGED streamVars
  /\ UNCHANGED endpointVars

\* ---------------------------------------------- generate_search_queries
\* LLMReasoning has no method generate_search_queries in the sources: the
\* attribute lookup in the node raises AttributeError.  The wrapper the
\* node expects is modelled next to it from the wrappers' shared contract
\* ({output, usage, error?}; cancellation checked before the call).
generate_search_queries(flag) == IF flag THEN "error" ELSE "await"

\* the node after the wrapper returned res, having put evsBefore already
GenerateAfterLlm(t, res, queries, evsBefore) ==
  /\ IF res = "error"
     THEN /\ Put(t, evsBefore \o <<SSEEvent("error", "query_generation", "generate_search_queries")>>)
          /\ is_cancelled_flag' = [is_cancelled_flag EXCEPT ![t] = TRUE]
          /\ state' = [state EXCEPT ![t].current_queries_for_hop = <<>>]
     ELSE /\ Put(t, evsBefore \o <<SSEEvent("progress", "query_generation_complete", "generate_search_queries")>>)
          /\ UNCHANGED is_cancelled_flag
          /\ state' = [state EXCEPT ![t].current_queries_for_hop = queries]
  /\ pc' = [pc EXCEPT ![t] = "at_web_search"]
  /\ UNCHANGED task_result

QueryLists == UNION {[1..n -> Queries] : n \in 0..MaxQueries}

GenerateSearchQueries(t) ==
  /\ pc[t] = "at_generate_search_queries"
  /\ ~must_cancel[t]
  /\ LET started == NodeStarted(node_log[t], "generate_search_queries", is_cancelled_flag[t])
         first == <<SSEEvent("progress", "generate_search_queries", "generate_search_queries")>>
     IN \/ /\ GraphRaises(t, started, "generate_search_queries", first)   \* AttributeError
           /\ UNCHANGED <<is_cancelled_flag, state>>
        \/ /\ generate_search_queries(is_cancelled_flag[t]) = "await"
           /\ Put(t, first)
           /\ pc' = [pc EXCEPT ![t] = "gen_await_llm"]
           /\ node_log' = [node_log EXCEPT ![t] = started]
           /\ UNCHANGED <<is_cancelled_flag, state, task_result>>
        \/ /\ generate_search_queries(is_cancelled_flag[t]) = "error"
           /\ GenerateAfterLlm(t, "error", <<>>, first)
           /\ node_log' = [node_log EXCEPT ![t] =
                             [NodeEnded(started, "generate_search_queries", "returned")
                                EXCEPT !["generate_search_queries"].llm = "error"]]
  /\ UNCHANGED <<must_cancel, local, content_vector_status, ignored_providers,
                 task_output_queues, active_tasks, callback>>
  /\ UNCHANGED streamVars
  /\ UNCHANGED endpointVars

\* generate_search_queries_node as the sources run it: the progress event,
\* then AttributeError at the call of the undefined method
GenerateSearchQueriesRaises(t) ==
  /\ pc[t] = "at_generate_search_queries"
  /\ ~must_cancel[t]
  /\ GraphRaises(t, NodeStarted(node_log[t], "generate_search_queries", is_cancelled_flag[t]),
                 "generate_search_queries",
                 <<SSEEvent("progress", "generate_search_queries", "generate_search_queries")>>)
  /\ UNCHANGED <<is_cancelled_flag, state>>
  /\ UNCHANGED <<must_cancel, local, content_vector_status, ignored_providers,
                 task_output_queues, active_tasks, callback>>
  /\ UNCHANGED streamVars
  /\ UNCHANGED endpointVars

GenerateResume(t, res, queries) ==
  /\ pc[t] = "gen_await_llm"
  /\ ~must_cancel[t]
  /\ GenerateAfterLlm(t, res, queries, <<>>)
  /\ node_log' = [node_log EXCEPT ![t] =
                    [NodeEnded(@, "generate_search_queries", "returned")
                       EXCEPT !["generate_search_queries"].llm = res]]
  /\ UNCHANGED <<must_cancel, local, content_vector_status, ignored_providers,
                 task_output_queues, active_tasks, callback>>
  /\ UNCHANGED streamVars
  /\ UNCHANGED endpointVars


\* ------------------------------------------------------------ web_search
\* the randomly shuffled list of the providers in ps
Shuffles(ps) ==
  {f \in [1..Cardinality(ps) -> ps] : \A i, j \in 1..Cardinality(ps) : f[i] = f[j] => i = j}

\* execute_search_pass, provider selection: the caller's providers that are
\* not ignored, else the configured fallback providers that are not ignored
ActiveProviders(ignored) ==
  IF Providers \ ignored # {} THEN Providers \ ignored ELSE FallbackProviders \ ignored

\* key of provider_errors used for entries that do not name a provider
ErrorKey == 0

PassReturned_without_record(t, loc, s_list, errors) ==
  /\ Put(t, [i \in 1..Cardinality(errors) |->
               SSEEvent("progress", "web_search_provider_error", "web_search")])
  /\ local' = [local EXCEPT ![t] =
                 [loc EXCEPT !.results_this_node = @ \cup s_list,
                             !.queries_left = Tail(@),
                             !.providers_left = <<>>,
                             !.provider = 0,
                             !.all_search_metadata = {},
                             !.provider_errors = {}]]
  /\ pc' = [pc EXCEPT ![t] = "ws_loop"]

\* web_search_node after execute_search_pass returned (s_list, errors) for
\* the query at the head of queries_left: results are appended, one
\* progress event per entry of errors, the query is recorded.
PassReturned(t, loc, s_list, errors) ==
  /\ Put(t, [i \in 1..Cardinality(errors) |->
               SSEEvent("progress", "web_search_provider_error", "web_search")])
  /\ local' = [local EXCEPT ![t] =
                 [loc EXCEPT !.results_this_node = @ \cup s_list,
                             !.executed_this_pass = @ \cup {Head(loc.queries_left)},
                             !.queries_left = Tail(@),
                             !.providers_left = <<>>,
                             !.provider = 0,
                             !.all_search_metadata = {},
                             !.provider_errors = {}]]
  /\ pc' = [pc EXCEPT ![t] = "ws_loop"]

WebSearch(t) ==
  /\ pc[t] = "at_web_search"
  /\ ~must_cancel[t]
  /\ IF state[t].current_queries_for_hop = <<>>
     THEN /\ state' = [state EXCEPT ![t].search_results_this_hop = {}]
          /\ pc' = [pc EXCEPT ![t] = "at_process_content"]
          /\ node_log' = [node_log EXCEPT ![t] =
                            NodeEnded(NodeStarted(@, "web_search", is_cancelled_flag[t]),
                                      "web_search", "returned")]
          /\ UNCHANGED local
     ELSE /\ local' = [local EXCEPT ![t] =
                         [EmptyLocal EXCEPT !.queries_left = state[t].current_queries_for_hop]]
          /\ pc' = [pc EXCEPT ![t] = "ws_loop"]
          /\ node_log' = [node_log EXCEPT ![t] =
                            NodeStarted(@, "web_search", is_cancelled_flag[t])]
          /\ UNCHANGED state
  /\ UNCHANGED <<must_cancel, task_result, is_cancelled_flag, content_vector_status,
                 ignored_providers, queue, enqueued, task_output_queues,
                 active_tasks, callback>>
  /\ UNCHANGED streamVars
  /\ UNCHANGED endpointVars

\* head of "for query in current_queries" up to the start of the search pass
WebSearchLoop(t) ==
  /\ pc[t] = "ws_loop"
  /\ LET loc == local[t] IN
     IF loc.queries_left = <<>> \/ is_cancelled_flag[t]
     THEN \* loop left: search_done, the node returns its delta
          /\ Put(t, <<SSEEvent("progress", "search_done", "web_search")>>)
          /\ state' = [state EXCEPT
                         ![t].search_results_this_hop = loc.results_this_node,
                         ![t].executed_search_queries = @ \cup loc.executed_this_pass]
          /\ pc' = [pc EXCEPT ![t] = "at_process_content"]
          /\ node_log' = [node_log EXCEPT ![t] = NodeEnded(@, "web_search", "returned")]
          /\ UNCHANGED local
     ELSE IF Head(loc.queries_left) \in state[t].executed_search_queries
     THEN /\ local' = [local EXCEPT ![t].queries_left = Tail(@)]
          /\ UNCHANGED <<pc, state, node_log, queue, enqueued>>
     ELSE IF ActiveProviders(ignored_providers) = {}
     THEN \* return [], {"error": "All providers rate-limited."}
          /\ PassReturned(t, [loc EXCEPT !.passes_started = Append(@, Head(loc.queries_left))],
                          {}, {ErrorKey})
          /\ UNCHANGED <<state, node_log>>
     ELSE /\ \E order \in Shuffles(ActiveProviders(ignored_providers)) :
               local' = [local EXCEPT ![t].query = Head(loc.queries_left),
                                      ![t].passes_started = Append(@, Head(loc.queries_left)),
                                      ![t].providers_left = order,
                                      ![t].all_search_metadata = {},
                                      ![t].provider_errors = {}]
          /\ pc' = [pc EXCEPT ![t] = "ws_providers"]
          /\ UNCHANGED <<state, node_log, queue, enqueued>>
  /\ UNCHANGED <<must_cancel, task_result, is_cancelled_flag, content_vector_status,
                 ignored_providers, task_output_queues, active_tasks, callback>>
  /\ UNCHANGED streamVars
  /\ UNCHANGED endpointVars

\* head of "for provider_key in active_providers" up to the awaited call
SearchPassLoop(t) ==
  /\ pc[t] = "ws_providers"
  /\ LET loc == local[t] IN
     IF loc.providers_left = <<>>
     THEN /\ PassReturned(t, loc, loc.all_search_metadata, loc.provider_errors)
     ELSE IF is_cancelled_flag[t]
     THEN /\ PassReturned(t, loc, loc.all_search_metadata,
                          loc.provider_errors \cup {ErrorKey})
     ELSE /\ Put(t, <<SSEEvent("progress", "web_search_provider", "web_search")>>)
          /\ local' = [local EXCEPT ![t].provider = Head(loc.providers_left),
                                    ![t].providers_left = Tail(@)]
          /\ pc' = [pc EXCEPT ![t] = "ws_provider_wait"]
  /\ UNCHANGED <<must_cancel, task_result, is_cancelled_flag, state,
                 content_vector_status, ignored_providers, task_output_queues,
                 active_tasks, callback, node_log>>
  /\ UNCHANGED streamVars
  /\ UNCHANGED endpointVars

ProviderOutcomes ==
  {"results", "api_error", "api_error_keyed", "timeout", "fatal", "generic"}

\* outcomes after which add_or_update_provider is called for the provider
MarkingOutcomes == {"api_error_keyed", "timeout", "fatal"}

ProviderCallDone_breaking(t, outcome, urls) ==
  /\ pc[t] = "ws_provider_wait"
  /\ ~must_cancel[t]
  /\ LET pk == local[t].provider IN
     IF outcome = "results"
     THEN /\ local' = [local EXCEPT ![t].all_search_metadata = @ \cup urls]
          /\ UNCHANGED ignored_providers
     ELSE /\ urls = {}
          /\ local' = [local EXCEPT ![t].provider_errors = @ \cup {pk},
                                    ![t].providers_left = <<>>]
          /\ ignored_providers' =
               IF outcome \in MarkingOutcomes THEN ignored_providers \cup {pk}
               ELSE ignored_providers
  /\ pc' = [pc EXCEPT ![t] = "ws_providers"]
  /\ UNCHANGED <<must_cancel, task_result, is_cancelled_flag, state,
                 content_vector_status, queue, enqueued, task_output_queues,
                 active_tasks, callback, node_log>>
  /\ UNCHANGED streamVars
  /\ UNCHANGED endpointVars

\* the awaited provider call is over (result, error result with or without
\* a provider_key, 20 s timeout, SearchProviderFatalError or another
\* exception); failures are recorded in provider_errors
ProviderCallDone(t, outcome, urls) ==
  /\ pc[t] = "ws_provider_wait"
  /\ ~must_cancel[t]
  /\ LET pk == local[t].provider IN
     IF outcome = "results"
     THEN /\ local' = [local EXCEPT ![t].all_search_metadata = @ \cup urls]
          /\ UNCHANGED ignored_providers
     ELSE /\ urls = {}
          /\ local' = [local EXCEPT ![t].provider_errors = @ \cup {pk}]
          /\ ignored_providers' =
               IF outcome \in MarkingOutcomes THEN ignored_providers \cup {pk}
               ELSE ignored_providers
  /\ pc' = [pc EXCEPT ![t] = "ws_providers"]
  /\ UNCHANGED <<must_cancel, task_result, is_cancelled_flag, state,
                 content_vector_status, queue, enqueued, task_output_queues,
                 active_tasks, callback, node_log>>
  /\ UNCHANGED streamVars
  /\ UNCHANGED endpointVars

\* ------------------------------------------------------- process_content
ProcessContent(t) ==
  /\ pc[t] = "at_process_content"
  /\ ~must_cancel[t]
  /\ LET started == NodeStarted(node_log[t], "process_content", is_cancelled_flag[t])
         todo == state[t].search_results_this_hop \ state[t].visited_urls
     IN IF state[t].search_results_this_hop = {}
        THEN /\ state' = [state EXCEPT ![t].processed_chunks_this_hop = {}]
             /\ pc' = [pc EXCEPT ![t] = "at_synthesize_report"]
             /\ node_log' = [node_log EXCEPT ![t] =
                               NodeEnded(started, "process_content", "returned")]
             /\ UNCHANGED <<local, queue, enqueued>>
        ELSE /\ Put(t, [i \in 1..Cardinality(todo) |->
                          SSEEvent("progress", "scraping_url", "process_content")])
             /\ local' = [local EXCEPT ![t] = [EmptyLocal EXCEPT !.urls_being_scraped = todo]]
             /\ pc' = [pc EXCEPT ![t] = "pc_gather"]
             /\ node_log' = [node_log EXCEPT ![t] = started]
             /\ UNCHANGED state
  /\ UNCHANGED <<must_cancel, task_result, is_cancelled_flag, content_vector_status,
                 ignored_providers, task_output_queues, active_tasks, callback>>
  /\ UNCHANGED streamVars
  /\ UNCHANGED endpointVars

\* process_content_node returning only the URLs of this hop as visited
ProcessGathered_replacing_visited(t, with_content) ==
  /\ pc[t] = "pc_gather"
  /\ ~must_cancel[t]
  /\ with_content \subseteq local[t].urls_being_scraped
  /\ IF is_cancelled_flag[t]
     THEN state' = [state EXCEPT ![t].processed_chunks_this_hop = {}]
     ELSE state' = [state EXCEPT
                      ![t].processed_chunks_this_hop = with_content,
                      ![t].visited_urls = local[t].urls_being_scraped]
  /\ Put(t, <<SSEEvent("progress", "content_processing_complete", "process_content")>>)
  /\ pc' = [pc EXCEPT ![t] = "at_synthesize_report"]
  /\ node_log' = [node_log EXCEPT ![t] = NodeEnded(@, "process_content", "returned")]
  /\ UNCHANGED <<must_cancel, task_result, is_cancelled_flag, local,
                 content_vector_status, ignored_providers, task_output_queues,
                 active_tasks, callback>>
  /\ UNCHANGED streamVars
  /\ UNCHANGED endpointVars

ProcessGathered_visiting_scraped(t, with_content) ==
  /\ pc[t] = "pc_gather"
  /\ ~must_cancel[t]
  /\ with_content \subseteq local[t].urls_being_scraped
  /\ IF is_cancelled_flag[t]
     THEN state' = [state EXCEPT ![t].processed_chunks_this_hop = {}]
     ELSE state' = [state EXCEPT
                      ![t].processed_chunks_this_hop = with_content,
                      ![t].visited_urls = @ \cup with_content]
  /\ Put(t, <<SSEEvent("progress", "content_processing_complete", "process_content")>>)
  /\ pc' = [pc EXCEPT ![t] = "at_synthesize_report"]
  /\ node_log' = [node_log EXCEPT ![t] = NodeEnded(@, "process_content", "returned")]
  /\ UNCHANGED <<must_cancel, task_result, is_cancelled_flag, local,
                 content_vector_status, ignored_providers, task_output_queues,
                 active_tasks, callback>>
  /\ UNCHANGED streamVars
  /\ UNCHANGED endpointVars

\* gather(...) is over; with_content are the URLs whose scrape gave content
ProcessGathered(t, with_content) ==
  /\ pc[t] = "pc_gather"
  /\ ~must_cancel[t]
  /\ with_content \subseteq local[t].urls_being_scraped
  /\ IF is_cancelled_flag[t]
     THEN state' = [state EXCEPT ![t].processed_chunks_this_hop = {}]
     ELSE state' = [state EXCEPT
                      ![t].processed_chunks_this_hop = with_content,
                      ![t].visited_urls = @ \cup local[t].urls_being_scraped]
  /\ Put(t, <<SSEEvent("progress", "content_processing_complete", "process_content")>>)
  /\ pc' = [pc EXCEPT ![t] = "at_synthesize_report"]
  /\ node_log' = [node_log EXCEPT ![t] = NodeEnded(@, "process_content", "returned")]
  /\ UNCHANGED <<must_cancel, task_result, is_cancelled_flag, local,
                 content_vector_status, ignored_providers, task_output_queues,
                 active_tasks, callback>>
  /\ UNCHANGED streamVars
  /\ UNCHANGED endpointVars


\* ----------------------------------------------------- synthesize_report
\* synthesize_initial_draft -> synthesize_with_vector_focus: returns an
\* error result at once when the flag is set, otherwise awaits the LLM.
synthesize_initial_draft(flag) == IF flag THEN "error" ELSE "await"

\* The node after the draft call returned res.  Its error field is never
\* read; with chunks present the sources are built with
\* ReportSourceItem(url=..., title=...), whose required citation_marker is
\* missing: pydantic raises ValidationError before the markdown_chunk put.
SynthesizeAfterLlm(t, log, res, evsBefore) ==
  GraphRaises(t, [log EXCEPT !["synthesize_report"].llm = res],
              "synthesize_report", evsBefore)

SynthesizeReport(t) ==
  /\ pc[t] = "at_synthesize_report"
  /\ ~must_cancel[t]
  /\ LET started == NodeStarted(node_log[t], "synthesize_report", is_cancelled_flag[t])
         first == <<SSEEvent("progress", "synthesis_start", "synthesize_report")>>
     IN IF state[t].processed_chunks_this_hop = {}
        THEN /\ Put(t, first \o <<SSEEvent("markdown_chunk", "final", "synthesize_report")>>)
             /\ pc' = [pc EXCEPT ![t] = "at_finalize_task"]
             /\ node_log' = [node_log EXCEPT ![t] =
                               NodeEnded(started, "synthesize_report", "returned")]
             /\ UNCHANGED task_result
        ELSE IF synthesize_initial_draft(is_cancelled_flag[t]) = "error"
        THEN SynthesizeAfterLlm(t, started, "error", first)
        ELSE /\ Put(t, first)
             /\ pc' = [pc EXCEPT ![t] = "syn_await_llm"]
             /\ node_log' = [node_log EXCEPT ![t] = started]
             /\ UNCHANGED task_result
  /\ UNCHANGED <<must_cancel, is_cancelled_flag, state, local,
                 content_vector_status, ignored_providers, task_output_queues,
                 active_tasks, callback>>
  /\ UNCHANGED streamVars
  /\ UNCHANGED endpointVars

SynthesizeResume(t, res) ==
  /\ pc[t] = "syn_await_llm"
  /\ ~must_cancel[t]
  /\ SynthesizeAfterLlm(t, node_log[t], res, <<>>)
  /\ UNCHANGED <<must_cancel, is_cancelled_flag, state, local,
                 content_vector_status, ignored_providers, task_output_queues,
                 active_tasks, callback>>
  /\ UNCHANGED streamVars
  /\ UNCHANGED endpointVars

\* --------------------------------------------------------- finalize_task
\* SSECompleteData(message, detailed_token_usage, report_sources,
\* stat_duration_display) leaves six required fields unset
\* (total_hops_executed, ...): pydantic raises ValidationError, and the
\* complete event is never built.
FinalizeTask(t) ==
  /\ pc[t] = "at_finalize_task"
  /\ ~must_cancel[t]
  /\ GraphRaises(t, NodeStarted(node_log[t], "finalize_task", is_cancelled_flag[t]),
                 "finalize_task", <<>>)
  /\ UNCHANGED <<must_cancel, is_cancelled_flag, state, local,
                 content_vector_status, ignored_providers, task_output_queues,
                 active_tasks, callback>>
  /\ UNCHANGED streamVars
  /\ UNCHANGED endpointVars

\* ------------------------------------------- delivery of CancelledError
\* except asyncio.CancelledError / finally of run_graph_and_process_events:
\* the cancelled event, the sentinel, and the coroutine returns normally
\* (the CancelledError is not re-raised).
CancelPropagates(t) ==
  /\ Put(t, <<SSEEvent("cancelled", "", "runtime")>> \o SentinelIfRegistered(t))
  /\ pc' = [pc EXCEPT ![t] = "done"]
  /\ task_result' = [task_result EXCEPT ![t] = "returned"]
  /\ node_log' = [node_log EXCEPT ![t] =
                    IF RunningNode(t) = "runtime" THEN @
                    ELSE NodeEnded(@, RunningNode(t), "cancelled")]
  /\ UNCHANGED <<is_cancelled_flag, state, local, ignored_providers>>

\* The pending CancelledError is thrown into the await the task is
\* suspended in.  execute_search_pass catches it around the provider call
\* and breaks; the local-model path of _execute_llm_call catches it and
\* returns an "Operation cancelled." error result; the other awaits let it
\* through to run_graph_and_process_events.
DeliverCancel(t) ==
  /\ must_cancel[t]
  /\ pc[t] \in SuspensionPoints
  /\ must_cancel' = [must_cancel EXCEPT ![t] = FALSE]
  /\ \/ /\ pc[t] = "ws_provider_wait"
        /\ PassReturned(t, local[t], local[t].all_search_metadata,
                        local[t].provider_errors \cup {local[t].provider})
        /\ UNCHANGED <<task_result, is_cancelled_flag, state, ignored_providers, node_log>>
     \/ /\ pc[t] = "gen_await_llm"
        /\ GenerateAfterLlm(t, "error", <<>>, <<>>)
        /\ node_log' = [node_log EXCEPT ![t] =
                          [NodeEnded(@, "generate_search_queries", "returned")
                             EXCEPT !["generate_search_queries"].llm = "error"]]
        /\ UNCHANGED <<local, ignored_providers>>
     \/ /\ pc[t] = "syn_await_llm"
        /\ SynthesizeAfterLlm(t, node_log[t], "error", <<>>)
        /\ UNCHANGED <<is_cancelled_flag, state, local, ignored_providers>>
     \/ /\ pc[t] # "ws_provider_wait"
        /\ CancelPropagates(t)
  /\ UNCHANGED <<content_vector_status, task_output_queues, active_tasks, callback>>
  /\ UNCHANGED streamVars
  /\ UNCHANGED endpointVars

\* ---------------------------------------------- _task_done_callback_async
\* the done-callback task: "await task_future" is over, asyncio.sleep starts
TaskDoneCallback(t) ==
  /\ LoopIdle
  /\ callback[t] = "waiting"
  /\ pc[t] = "done"
  /\ callback' = [callback EXCEPT ![t] = "sleeping"]
  /\ UNCHANGED <<queue, enqueued, task_output_queues, active_tasks>>
  /\ UNCHANGED taskVars
  /\ UNCHANGED streamVars
  /\ UNCHANGED endpointVars

\* after TASK_CLEANUP_DELAY_SECONDS: active_tasks.pop(task_id, None)
TaskCleanup(t) ==
  /\ LoopIdle
  /\ callback[t] = "sleeping"
  /\ callback' = [callback EXCEPT ![t] = "finished"]
  /\ active_tasks' = active_tasks \ {t}
  /\ UNCHANGED <<queue, enqueued, task_output_queues>>
  /\ UNCHANGED taskVars
  /\ UNCHANGED streamVars
  /\ UNCHANGED endpointVars

\* --------------------------------------- GET /research_tasks/{id}/stream
\* stream_task_updates, the answer to a stream request made now
StreamResponse(t) ==
  IF t \notin task_output_queues
  THEN IF t \notin active_tasks \/ pc[t] = "done" THEN "http_404" ELSE "http_500"
  ELSE IF t \notin active_tasks THEN "http_404"
  ELSE "stream"

\* A request that is answered with a stream: the generator starts (its two
\* initial events are not queue events) and waits on output_queue.get().
\* Stream requests are numbered in the order in which they are made.
StreamTaskUpdates(t, s) ==
  /\ LoopIdle
  /\ stream[t][s] = "none"
  /\ \A s2 \in StreamIds : s2 < s => stream[t][s2] # "none"
  /\ StreamResponse(t) = "stream"
  /\ stream' = [stream EXCEPT ![t][s] = "open"]
  /\ UNCHANGED <<queue, enqueued, task_output_queues, active_tasks, callback,
                 stream_yielded, stream_exit>>
  /\ UNCHANGED taskVars
  /\ UNCHANGED endpointVars

\* A request for a task that has left active_tasks while its queue entry is
\* still there: the entry is popped and the answer is 404.
StreamRequestAfterCleanup(t) ==
  /\ LoopIdle
  /\ t \in task_output_queues
  /\ t \notin active_tasks
  /\ task_output_queues' = task_output_queues \ {t}
  /\ UNCHANGED <<queue, enqueued, active_tasks, callback>>
  /\ UNCHANGED taskVars
  /\ UNCHANGED streamVars
  /\ UNCHANGED endpointVars

\* event_generator: queue_getter is done.  The sentinel ends the loop at
\* once (finally: the queue entry is popped); any other item is yielded,
\* and a terminal one ends the loop when the generator is resumed.
StreamDequeue(t, s) ==
  /\ LoopIdle
  /\ stream[t][s] = "open"
  /\ queue[t] # <<>>
  /\ LET sse_event == Head(queue[t]) IN
     /\ queue' = [queue EXCEPT ![t] = Tail(@)]
     /\ IF sse_event = NoneSentinel
        THEN /\ stream' = [stream EXCEPT ![t][s] = "closed"]
             /\ stream_exit' = [stream_exit EXCEPT ![t][s] = "sentinel"]
             /\ task_output_queues' = task_output_queues \ {t}
             /\ UNCHANGED stream_yielded
        ELSE /\ stream_yielded' = [stream_yielded EXCEPT ![t][s] =
                  Yield(@, sse_event,
                        \A s2 \in StreamIds \ {s} : ~stream_yielded[t][s2].some)]
             /\ stream' = [stream EXCEPT ![t][s] =
                             IF IsTerminal(sse_event) THEN "terminal_yielded" ELSE "open"]
             /\ UNCHANGED <<stream_exit, task_output_queues>>
  /\ UNCHANGED <<enqueued, active_tasks, callback>>
  /\ UNCHANGED taskVars
  /\ UNCHANGED endpointVars

\* event_generator resumed after yielding a terminal event: break, finally
StreamFinish(t, s) ==
  /\ LoopIdle
  /\ stream[t][s] = "terminal_yielded"
  /\ stream' = [stream EXCEPT ![t][s] = "closed"]
  /\ stream_exit' = [stream_exit EXCEPT ![t][s] = "terminal"]
  /\ task_output_queues' = task_output_queues \ {t}
  /\ UNCHANGED <<queue, enqueued, active_tasks, callback, stream_yielded>>
  /\ UNCHANGED taskVars
  /\ UNCHANGED endpointVars

\* event_generator: heartbeat_waiter is done, a heartbeat is yielded
StreamHeartbeat(t, s) ==
  /\ LoopIdle
  /\ stream[t][s] = "open"
  /\ stream_yielded' = [stream_yielded EXCEPT ![t][s].last = "heartbeat"]
  /\ UNCHANGED <<queue, enqueued, task_output_queues, active_tasks, callback,
                 stream, stream_exit>>
  /\ UNCHANGED taskVars
  /\ UNCHANGED endpointVars

\* the client goes away: CancelledError in event_generator, then finally
ClientDisconnect(t, s) ==
  /\ LoopIdle
  /\ stream[t][s] = "open"
  /\ stream' = [stream EXCEPT ![t][s] = "closed"]
  /\ stream_exit' = [stream_exit EXCEPT ![t][s] = "disconnected"]
  /\ task_output_queues' = task_output_queues \ {t}
  /\ UNCHANGED <<queue, enqueued, active_tasks, callback, stream_yielded>>
  /\ UNCHANGED taskVars
  /\ UNCHANGED endpointVars

\* -------------------------------------- POST /research_tasks/{id}/cancel
\* cancel_research_task, the answer to a cancel request made now
CancelResponse(t) ==
  IF t \notin active_tasks THEN "http_404"
  ELSE IF pc[t] = "done" THEN "already_completed"
  ELSE "cancellation_requested"

\* cancel_research_task calling cancel() on every task of active_tasks
cancel_research_task_every_task(t) ==
  /\ LoopIdle
  /\ cancel_requests[t] < MaxCancelCalls
  /\ CancelResponse(t) = "cancellation_requested"
  /\ must_cancel' = [b \in TaskIds |-> IF b \in active_tasks /\ pc[b] # "done"
                                       THEN TRUE ELSE must_cancel[b]]
  /\ cancel_requests' = [cancel_requests EXCEPT ![t] = @ + 1]
  /\ UNCHANGED <<pc, task_result, is_cancelled_flag, state, local,
                 content_vector_status, ignored_providers, node_log,
                 queue, enqueued, task_output_queues, active_tasks, callback>>
  /\ UNCHANGED streamVars

\* a request that is not answered by one of the early returns: task.cancel()
cancel_research_task(t) ==
  /\ LoopIdle
  /\ cancel_requests[t] < MaxCancelCalls
  /\ CancelResponse(t) = "cancellation_requested"
  /\ must_cancel' = [must_cancel EXCEPT ![t] = TRUE]
  /\ cancel_requests' = [cancel_requests EXCEPT ![t] = @ + 1]
  /\ UNCHANGED <<pc, task_result, is_cancelled_flag, state, local,
                 content_vector_status, ignored_providers, node_log,
                 queue, enqueued, task_output_queues, active_tasks, callback>>
  /\ UNCHANGED streamVars

\* POST /cancel has answered cancellation_requested for task t
CancelAccepted(t) == cancel_requests[t] > 0

\* -------------------------------------- GET /research_tasks/{id}/status
\* get_task_status, the answer to a status request made now
get_task_status(t) ==
  IF t \in active_tasks
  THEN IF pc[t] = "done"
       THEN IF task_result[t] = "cancelled" THEN "cancelled"
            ELSE IF task_result[t] = "exception" THEN "error"
            ELSE "completing"
       ELSE "running"
  ELSE "http_404"

\* ------------------------------------------------------------------ Next
\* the steps of the HTTP handlers, the SSE generators and the done-callback
GatewayStep(t, streams) ==
  \/ CreateTask(t)
  \/ TaskDoneCallback(t)
  \/ TaskCleanup(t)
  \/ cancel_research_task(t)
  \/ StreamRequestAfterCleanup(t)
  \/ \E s \in streams :
       \/ StreamTaskUpdates(t, s)
       \/ StreamDequeue(t, s)
       \/ StreamFinish(t, s)
       \/ StreamHeartbeat(t, s)
       \/ ClientDisconnect(t, s)

\* the steps of the background task that runs the graph
GraphStep(t) ==
  \/ InitializeTask(t)
  \/ \E ok \in BOOLEAN : InitializeVector(t, ok)
  \/ GenerateSearchQueries(t)
  \/ \E res \in {"ok", "error"}, qs \in QueryLists : GenerateResume(t, res, qs)
  \/ WebSearch(t)
  \/ WebSearchLoop(t)
  \/ SearchPassLoop(t)
  \/ \E o \in ProviderOutcomes, urls \in SUBSET Urls : ProviderCallDone(t, o, urls)
  \/ ProcessContent(t)
  \/ \E c \in SUBSET Urls : ProcessGathered(t, c)
  \/ SynthesizeReport(t)
  \/ \E res \in {"ok", "error"} : SynthesizeResume(t, res)
  \/ FinalizeTask(t)
  \/ DeliverCancel(t)

Next ==
  /\ \E t \in OneTask : GraphStep(t) \/ GatewayStep(t, StreamIds)
  /\ UNCHANGED <<registryVars, scrape, llm, cite, trust, fts, sse>>

Spec == Init /\ [][Next]_vars

\* ---------------------------------------------------------- two tasks
\* The graph as the sources run it (generate_search_queries_node ends in
\* AttributeError), for every task id, next to the whole gateway.
SourceGraphStep(t) ==
  \/ InitializeTask(t)
  \/ \E ok \in BOOLEAN : InitializeVector(t, ok)
  \/ GenerateSearchQueriesRaises(t)
  \/ DeliverCancel(t)

\* one stream request per task; the rate-limit file, which this part of
\* the graph never reads, starts empty
FrameStreamIds == {1}

InitFrame == Init /\ ignored_providers = {}

NextFrame ==
  /\ \E t \in TaskIds : SourceGraphStep(t) \/ GatewayStep(t, FrameStreamIds)
  /\ UNCHANGED <<registryVars, scrape, llm, cite, trust, fts, sse>>

SpecFrame == InitFrame /\ [][NextFrame]_vars

\* The event loop runs whatever is ready: the background task, the
\* done-callback task and a started event_generator are scheduled fairly.
\* What clients do (create, stream, disconnect, cancel) is up to them.
FairFrame ==
  \A t \in TaskIds :
    /\ WF_vars(SourceGraphStep(t) /\ UNCHANGED <<registryVars, scrape, llm, cite, trust, fts, sse>>)
    /\ WF_vars(TaskDoneCallback(t) /\ UNCHANGED <<registryVars, scrape, llm, cite, trust, fts, sse>>)
    /\ WF_vars(TaskCleanup(t) /\ UNCHANGED <<registryVars, scrape, llm, cite, trust, fts, sse>>)
    /\ \A s \in FrameStreamIds :
         WF_vars(/\ StreamDequeue(t, s) \/ StreamFinish(t, s)
                 /\ UNCHANGED <<registryVars, scrape, llm, cite, trust, fts, sse>>)

SpecFrameFair == InitFrame /\ [][NextFrame]_vars /\ FairFrame

\* ------------------------------------------------- concurrent search passes
\* Two tasks that have both reached web_search with one query each (the
\* events of initialize_task and generate_search_queries are on their
\* queues); the rate-limit file holds any set of unexpired entries.
EventsBeforeWebSearch ==
  <<SSEEvent("progress", "graph_initialization", "initialize_task"),
    SSEEvent("progress", "pre_flight_vector_store_ready", "initialize_task"),
    SSEEvent("progress", "pre_flight_search_engines_complete", "initialize_task"),
    SSEEvent("progress", "generate_search_queries", "generate_search_queries"),
    SSEEvent("progress", "query_generation_complete", "generate_search_queries")>>

InitSearchPass ==
  /\ pc = [t \in TaskIds |-> "at_web_search"]
  /\ must_cancel = [t \in TaskIds |-> FALSE]
  /\ task_result = [t \in TaskIds |-> "pending"]
  /\ is_cancelled_flag = [t \in TaskIds |-> FALSE]
  /\ state = [t \in TaskIds |-> [EmptyState EXCEPT !.current_queries_for_hop = <<1>>]]
  /\ local = [t \in TaskIds |-> EmptyLocal]
  /\ content_vector_status = "ready"
  /\ ignored_providers \in SUBSET AllProviders
  /\ queue = [t \in TaskIds |-> EventsBeforeWebSearch]
  /\ enqueued = [t \in TaskIds |-> EventsBeforeWebSearch]
  /\ task_output_queues = TaskIds
  /\ active_tasks = TaskIds
  /\ callback = [t \in TaskIds |-> "waiting"]
  /\ stream = [t \in TaskIds |-> [s \in StreamIds |-> "none"]]
  /\ stream_yielded = [t \in TaskIds |-> [s \in StreamIds |-> NothingYielded]]
  /\ stream_exit = [t \in TaskIds |-> [s \in StreamIds |-> "none"]]
  /\ RegistryAtRest
  /\ cancel_requests = [t \in TaskIds |-> 0]
  /\ node_log = [t \in TaskIds |->
                   [EmptyNodeLog EXCEPT
                      !["initialize_task"] = [start_flag |-> "unset", outcome |-> "returned", llm |-> "none"],
                      !["generate_search_queries"] = [start_flag |-> "unset", outcome |-> "returned", llm |-> "ok"]]]

\* web_search_node and execute_search_pass of either task; a task that is
\* between two awaits that do not block keeps the event loop
SearchPassStep(t) ==
  /\ \A u \in TaskIds \ {t} : pc[u] \notin MicroPoints
  /\ \/ WebSearch(t)
     \/ WebSearchLoop(t)
     \/ SearchPassLoop(t)
     \/ \E o \in ProviderOutcomes, urls \in SUBSET Urls : ProviderCallDone(t, o, urls)

NextSearchPass ==
  /\ \E t \in TaskIds : SearchPassStep(t)
  /\ UNCHANGED <<registryVars, scrape, llm, cite, trust, fts, sse>>

SpecSearchPass == InitSearchPass /\ [][NextSearchPass]_vars

\* ------------------------------------------------------ web_search_node
\* web_search_node of one task on every state it can be handed: up to
\* MaxHopQueries generated queries (a query may be listed twice) and any
\* set of queries executed before.
HopQueries == 1..MaxHopQueries

HopQueryLists == UNION {[1..n -> HopQueries] : n \in 0..MaxHopQueries}

InitWebSearch ==
  /\ pc = [t \in TaskIds |-> IF t \in OneTask THEN "at_web_search" ELSE "none"]
  /\ must_cancel = [t \in TaskIds |-> FALSE]
  /\ task_result = [t \in TaskIds |-> "pending"]
  /\ is_cancelled_flag = [t \in TaskIds |-> FALSE]
  /\ \E queries \in HopQueryLists, executed \in SUBSET HopQueries :
       state = [t \in TaskIds |->
                  IF t \in OneTask
                  THEN [EmptyState EXCEPT !.current_queries_for_hop = queries,
                                          !.executed_search_queries = executed]
                  ELSE EmptyState]
  /\ local = [t \in TaskIds |-> EmptyLocal]
  /\ content_vector_status = "ready"
  /\ ignored_providers \in IgnoreListsAtStart
  /\ queue = [t \in TaskIds |-> IF t \in OneTask THEN EventsBeforeWebSearch ELSE <<>>]
  /\ enqueued = queue
  /\ task_output_queues = OneTask
  /\ active_tasks = OneTask
  /\ callback = [t \in TaskIds |-> IF t \in OneTask THEN "waiting" ELSE "none"]
  /\ stream = [t \in TaskIds |-> [s \in StreamIds |-> "none"]]
  /\ stream_yielded = [t \in TaskIds |-> [s \in StreamIds |-> NothingYielded]]
  /\ stream_exit = [t \in TaskIds |-> [s \in StreamIds |-> "none"]]
  /\ RegistryAtRest
  /\ cancel_requests = [t \in TaskIds |-> 0]
  /\ node_log = [t \in TaskIds |->
                   IF t \in OneTask
                   THEN [EmptyNodeLog EXCEPT
                           !["initialize_task"] = [start_flag |-> "unset", outcome |-> "returned", llm |-> "none"],
                           !["generate_search_queries"] = [start_flag |-> "unset", outcome |-> "returned", llm |-> "ok"]]
                   ELSE EmptyNodeLog]

NextWebSearch ==
  /\ \E t \in OneTask : SearchPassStep(t)
  /\ UNCHANGED <<registryVars, scrape, llm, cite, trust, fts, sse>>

SpecWebSearch == InitWebSearch /\ [][NextWebSearch]_vars

\* task t dispatches a provider call in this step
Dispatches(t) == pc[t] # "ws_provider_wait" /\ pc'[t] = "ws_provider_wait"

\* everything that belongs to task b: its background task, its graph
\* state, its queue, its registry entries, its callback and its streams
TaskView(b) ==
  <<pc[b], must_cancel[b], task_result[b], is_cancelled_flag[b], state[b],
    local[b], node_log[b], queue[b], enqueued[b], b \in task_output_queues,
    b \in active_tasks, callback[b], stream[b], stream_yielded[b],
    stream_exit[b], cancel_requests[b]>>

\* ------------------------------------------------- RateLimitManager
\* Every method takes self._lock around each file access and awaits
\* nothing else.  asyncio.Lock.acquire() returns without suspending when
\* the lock is free, and no holder of the lock awaits while holding it:
\* on the one event loop each method therefore runs from its first
\* statement to its return as one step.  The file system is taken to be
\* reliable (a failed read or write is logged and swallowed by the code).
DEFAULT_IGNORE_DURATION_SECONDS == MaxDuration

Durations == 0..MaxDuration

\* with open(self.ignore_list_file, 'r') ... json.load
_load_ignore_list == ignore_file

\* with open(self.ignore_list_file, 'w') ... json.dump
_save_ignore_list(ignore_list) == ignore_file' = ignore_list

\* ignore_list[provider_name] = value
DictSet(ignore_list, provider_name, value) ==
  [q \in DOMAIN ignore_list \cup {provider_name} |->
     IF q = provider_name THEN value ELSE ignore_list[q]]

\* del ignore_list[provider_name], for a set of names
DictDel(ignore_list, names) == [q \in DOMAIN ignore_list \ names |-> ignore_list[q]]

ActiveEntries_at_or_after(ignore_list) ==
  {q \in DOMAIN ignore_list : ignore_list[q].iso /\ ignore_list[q].at >= now}

\* the entries get_ignored_providers keeps: fromisoformat succeeds and
\* expiry_dt > now_utc
ActiveEntries(ignore_list) ==
  {q \in DOMAIN ignore_list : ignore_list[q].iso /\ ignore_list[q].at > now}

\* the dictionary get_ignored_providers returns, and the file it leaves
ActiveIgnored(ignore_list) ==
  DictDel(ignore_list, DOMAIN ignore_list \ ActiveEntries(ignore_list))

Max(a, b) == IF a >= b THEN a ELSE b

add_or_update_provider_without_duration(provider_name, duration_seconds) ==
  LET ignore_list == DictSet(_load_ignore_list, provider_name, isoformat(now))
  IN /\ _save_ignore_list(ignore_list)
     /\ serial_file' = DictSet(serial_file, provider_name, isoformat(now + duration_seconds))
     /\ max_deadline' = [max_deadline EXCEPT ![provider_name] = Max(@, now + duration_seconds)]
     /\ last_deadline' = [last_deadline EXCEPT ![provider_name] = now + duration_seconds]
     /\ last_call' = [NoCall EXCEPT !.op = "add_or_update_provider",
                                    !.provider = provider_name, !.at = now]
     /\ UNCHANGED now

add_or_update_provider_keeping_later(provider_name, duration_seconds) ==
  LET loaded == _load_ignore_list
      expiry_time ==
        IF provider_name \in DOMAIN loaded /\ loaded[provider_name].iso
        THEN Max(loaded[provider_name].at, now + duration_seconds)
        ELSE now + duration_seconds
      ignore_list == DictSet(loaded, provider_name, isoformat(expiry_time))
  IN /\ _save_ignore_list(ignore_list)
     /\ serial_file' = DictSet(serial_file, provider_name, isoformat(now + duration_seconds))
     /\ max_deadline' = [max_deadline EXCEPT ![provider_name] = Max(@, now + duration_seconds)]
     /\ last_deadline' = [last_deadline EXCEPT ![provider_name] = now + duration_seconds]
     /\ last_call' = [NoCall EXCEPT !.op = "add_or_update_provider",
                                    !.provider = provider_name, !.at = now]
     /\ UNCHANGED now

add_or_update_provider(provider_name, duration_seconds) ==
  LET expiry_time == now + duration_seconds
      ignore_list == DictSet(_load_ignore_list, provider_name, isoformat(expiry_time))
  IN /\ _save_ignore_list(ignore_list)
     /\ serial_file' = DictSet(serial_file, provider_name, isoformat(now + duration_seconds))
     /\ max_deadline' = [max_deadline EXCEPT ![provider_name] = Max(@, now + duration_seconds)]
     /\ last_deadline' = [last_deadline EXCEPT ![provider_name] = now + duration_seconds]
     /\ last_call' = [NoCall EXCEPT !.op = "add_or_update_provider",
                                    !.provider = provider_name, !.at = now]
     /\ UNCHANGED now

\* duration_seconds is None
add_or_update_provider_default(provider_name) ==
  add_or_update_provider(provider_name, DEFAULT_IGNORE_DURATION_SECONDS)

\* what a read returns and leaves in the file; op and provider_name say
\* which method read
ReadWithPrune(op, provider_name) ==
  LET ignore_list == _load_ignore_list
      active == ActiveIgnored(ignore_list)
      updated_list_needed == DOMAIN active # DOMAIN ignore_list
  IN /\ IF updated_list_needed THEN _save_ignore_list(active)
                               ELSE UNCHANGED ignore_file
     /\ serial_file' = ActiveIgnored(serial_file)
     /\ last_call' = [op |-> op, provider |-> provider_name, at |-> now,
                      returned |-> active,
                      answer |-> provider_name \in DOMAIN active,
                      resaved |-> updated_list_needed]
     /\ UNCHANGED <<now, max_deadline, last_deadline>>

get_ignored_providers == ReadWithPrune("get_ignored_providers", 0)

is_provider_ignored(provider_name) == ReadWithPrune("is_provider_ignored", provider_name)

remove_provider_without_save(provider_name) ==
  /\ serial_file' = DictDel(serial_file, {provider_name})
  /\ max_deadline' = [max_deadline EXCEPT ![provider_name] = 0]
  /\ last_deadline' = [last_deadline EXCEPT ![provider_name] = 0]
  /\ last_call' = [NoCall EXCEPT !.op = "remove_provider",
                                 !.provider = provider_name, !.at = now]
  /\ UNCHANGED <<now, ignore_file>>

remove_provider(provider_name) ==
  LET ignore_list == _load_ignore_list
  IN /\ IF provider_name \in DOMAIN ignore_list
          THEN _save_ignore_list(DictDel(ignore_list, {provider_name}))
          ELSE UNCHANGED ignore_file
     /\ serial_file' = DictDel(serial_file, {provider_name})
     /\ max_deadline' = [max_deadline EXCEPT ![provider_name] = 0]
     /\ last_deadline' = [last_deadline EXCEPT ![provider_name] = 0]
     /\ last_call' = [NoCall EXCEPT !.op = "remove_provider",
                                    !.provider = provider_name, !.at = now]
     /\ UNCHANGED now

clear_all_ignored_providers ==
  /\ _save_ignore_list(EmptyFile)
  /\ serial_file' = EmptyFile
  /\ max_deadline' = [q \in Providers |-> 0]
  /\ last_deadline' = [q \in Providers |-> 0]
  /\ last_call' = [NoCall EXCEPT !.op = "clear_all_ignored_providers", !.at = now]
  /\ UNCHANGED now

\* time passes between two calls
Tick ==
  /\ now < MaxTime
  /\ now' = now + 1
  /\ UNCHANGED <<ignore_file, last_call, serial_file, max_deadline, last_deadline>>

\* the files the service can find at start: written by an earlier run
\* (entries possibly expired by now) or by hand (entries possibly not ISO)
FilesAtStart ==
  UNION {[names -> {NotIso} \cup {isoformat(e) : e \in Durations}] :
           names \in SUBSET Providers}

InitRegistry ==
  /\ pc = [t \in TaskIds |-> "none"]
  /\ must_cancel = [t \in TaskIds |-> FALSE]
  /\ task_result = [t \in TaskIds |-> "pending"]
  /\ is_cancelled_flag = [t \in TaskIds |-> FALSE]
  /\ state = [t \in TaskIds |-> EmptyState]
  /\ local = [t \in TaskIds |-> EmptyLocal]
  /\ content_vector_status = "uninitialized"
  /\ ignored_providers = {}
  /\ queue = [t \in TaskIds |-> <<>>]
  /\ enqueued = [t \in TaskIds |-> <<>>]
  /\ task_output_queues = {}
  /\ active_tasks = {}
  /\ callback = [t \in TaskIds |-> "none"]
  /\ stream = [t \in TaskIds |-> [s \in StreamIds |-> "none"]]
  /\ stream_yielded = [t \in TaskIds |-> [s \in StreamIds |-> NothingYielded]]
  /\ stream_exit = [t \in TaskIds |-> [s \in StreamIds |-> "none"]]
  /\ cancel_requests = [t \in TaskIds |-> 0]
  /\ node_log = [t \in TaskIds |-> EmptyNodeLog]
  /\ now = 0
  /\ ignore_file \in FilesAtStart
  /\ last_call = NoCall
  /\ serial_file = ignore_file
  /\ max_deadline = [q \in Providers |-> 0]
  /\ last_deadline = [q \in Providers |-> 0]
  /\ ScrapeAtRest
  /\ LlmAtRest
  /\ CiteAtRest
  /\ TrustAtRest
  /\ FtsAtRest
  /\ SseAtRest

NextRegistry ==
  /\ \/ \E provider_name \in Providers, duration_seconds \in Durations :
          add_or_update_provider(provider_name, duration_seconds)
     \/ \E provider_name \in Providers : add_or_update_provider_default(provider_name)
     \/ get_ignored_providers
     \/ \E provider_name \in Providers : is_provider_ignored(provider_name)
     \/ \E provider_name \in Providers : remove_provider(provider_name)
     \/ clear_all_ignored_providers
     \/ Tick
  /\ UNCHANGED <<taskVars, streamVars, endpointVars, queue, enqueued,
                 task_output_queues, active_tasks, callback, scrape, llm, cite, trust, fts, sse>>

SpecRegistry == InitRegistry /\ [][NextRegistry]_vars

\* ---------------------------------------------------- scrape subprocess
\* process_content_node with the scrape calls it gathers, each call with
\* its subprocess.  Time in the polling loop is counted in units of the
\* configured timeout's resolution; MaxElapsed caps the count.
LIVE_SEARCH_SCRAPY_SUBPROCESS_TIMEOUT == MaxElapsed - 1

ExitKinds == {"exit_content", "exit_no_content", "exit_nonzero", "exit_bad_output"}

\* the item _run_scrapy_spider makes of a finished subprocess: the spider's
\* item (with content or with content None), or a content-less item with
\* an error for a non-zero return code, empty stdout or stdout that is not
\* a JSON list
ItemOf(proc) ==
  IF proc = "exit_content" THEN "content"
  ELSE IF proc = "exit_no_content" THEN "no_content"
  ELSE "error"

\* asyncio.wait_for(communicate_task, timeout) for a task that is done or
\* not when wait_for is called and, if not, still not done at the timeout
wait_for(task_done) == IF task_done THEN "result" ELSE "TimeoutError"

scrapeFrame ==
  <<taskVars, streamVars, endpointVars, queue, enqueued, task_output_queues,
    active_tasks, callback>>

\* the scrape coroutine gather() started for u runs up to its first await
\* that blocks: it returns at once when the flag is set, else spawns the
\* subprocess (create_subprocess_exec may raise, caught by except Exception)
\* and enters the polling loop
_run_scrapy_spider(t, u, spawned) ==
  /\ pc[t] = "pc_gather"
  /\ ~must_cancel[t]
  /\ u \in local[t].urls_being_scraped
  /\ scrape[t][u].co = "none"
  /\ scrape' = [scrape EXCEPT ![t][u] =
       IF is_cancelled_flag[t] \/ ~spawned
       THEN [@ EXCEPT !.co = "returned", !.item = "error"]
       ELSE [@ EXCEPT !.co = "polling", !.proc = "running"]]
  /\ UNCHANGED scrapeFrame

\* the subprocess ends by itself; process.communicate() completes
SubprocessExits(t, u, how) ==
  /\ scrape[t][u].proc = "running"
  /\ scrape' = [scrape EXCEPT ![t][u].proc = how]
  /\ UNCHANGED scrapeFrame

\* one turn of "while not communicate_task.done()" after asyncio.sleep(0.1),
\* and what follows the loop
ScrapyPoll(t, u) ==
  /\ pc[t] = "pc_gather"
  /\ ~must_cancel[t]
  /\ scrape[t][u].co = "polling"
  /\ LET sc == scrape[t][u]
         communicate_task_done == sc.proc # "running"
     IN IF ~communicate_task_done
        THEN IF is_cancelled_flag[t]
             THEN \* process.terminate(); await process.wait()
                  scrape' = [scrape EXCEPT ![t][u] =
                    [@ EXCEPT !.co = "returned", !.proc = "terminated", !.item = "error"]]
             ELSE /\ sc.elapsed < MaxElapsed
                  /\ scrape' = [scrape EXCEPT ![t][u].elapsed = @ + 1]
        ELSE IF wait_for(communicate_task_done) = "TimeoutError"
             THEN \* process.kill(); await process.wait()
                  scrape' = [scrape EXCEPT ![t][u] =
                    [@ EXCEPT !.co = "returned", !.proc = "killed", !.item = "error"]]
             ELSE scrape' = [scrape EXCEPT ![t][u] =
                    [@ EXCEPT !.co = "returned", !.item = ItemOf(sc.proc)]]
  /\ UNCHANGED scrapeFrame

\* gather() has every result; the loop over the results
ScrapeGathered(t) ==
  /\ \A u \in local[t].urls_being_scraped : scrape[t][u].co = "returned"
  /\ ProcessGathered(t, {u \in local[t].urls_being_scraped : scrape[t][u].item = "content"})
  /\ UNCHANGED scrape

\* task.cancel() reaches the task in process_content_node; a task waiting
\* in gather() cancels the scrape coroutines that have not returned, and
\* none of them catches CancelledError (except Exception does not): the
\* subprocess and its communicate_task are left as they are
ScrapeCancelDelivered(t) ==
  /\ DeliverCancel(t)
  /\ scrape' = [scrape EXCEPT ![t] =
       [u \in Urls |-> IF pc[t] = "pc_gather" /\ scrape[t][u].co \in {"none", "polling"}
                       THEN [scrape[t][u] EXCEPT !.co = "cancelled"]
                       ELSE scrape[t][u]]]

EventsBeforeProcessContent ==
  EventsBeforeWebSearch \o
  <<SSEEvent("progress", "web_search_provider", "web_search"),
    SSEEvent("progress", "search_done", "web_search")>>

\* both tasks have searched and are about to enter process_content_node
InitScrape ==
  /\ pc = [t \in TaskIds |-> "at_process_content"]
  /\ must_cancel = [t \in TaskIds |-> FALSE]
  /\ task_result = [t \in TaskIds |-> "pending"]
  /\ is_cancelled_flag = [t \in TaskIds |-> FALSE]
  /\ state = [t \in TaskIds |->
                [EmptyState EXCEPT !.executed_search_queries = {1},
                                   !.search_results_this_hop = Urls]]
  /\ local = [t \in TaskIds |-> EmptyLocal]
  /\ content_vector_status = "ready"
  /\ ignored_providers = {}
  /\ queue = [t \in TaskIds |-> EventsBeforeProcessContent]
  /\ enqueued = [t \in TaskIds |-> EventsBeforeProcessContent]
  /\ task_output_queues = TaskIds
  /\ active_tasks = TaskIds
  /\ callback = [t \in TaskIds |-> "waiting"]
  /\ stream = [t \in TaskIds |-> [s \in StreamIds |-> "none"]]
  /\ stream_yielded = [t \in TaskIds |-> [s \in StreamIds |-> NothingYielded]]
  /\ stream_exit = [t \in TaskIds |-> [s \in StreamIds |-> "none"]]
  /\ RegistryAtRest
  /\ ScrapeAtRest
  /\ LlmAtRest
  /\ CiteAtRest
  /\ TrustAtRest
  /\ FtsAtRest
  /\ SseAtRest
  /\ cancel_requests = [t \in TaskIds |-> 0]
  /\ node_log = [t \in TaskIds |->
                   [EmptyNodeLog EXCEPT
                      !["initialize_task"] = [start_flag |-> "unset", outcome |-> "returned", llm |-> "none"],
                      !["generate_search_queries"] = [start_flag |-> "unset", outcome |-> "returned", llm |-> "ok"],
                      !["web_search"] = [start_flag |-> "unset", outcome |-> "returned", llm |-> "none"]]]

ScrapeStep(t) ==
  \/ ProcessContent(t) /\ UNCHANGED scrape
  \/ \E u \in Urls, spawned \in BOOLEAN : _run_scrapy_spider(t, u, spawned)
  \/ \E u \in Urls, how \in ExitKinds : SubprocessExits(t, u, how)
  \/ \E u \in Urls : ScrapyPoll(t, u)
  \/ ScrapeGathered(t)
  \/ cancel_research_task(t) /\ UNCHANGED scrape
  \/ ScrapeCancelDelivered(t)

NextScrape ==
  /\ \E t \in TaskIds : ScrapeStep(t)
  /\ UNCHANGED <<registryVars, llm, cite, trust, fts, sse>>

SpecScrape == InitScrape /\ [][NextScrape]_vars

\* ------------------------------------------- process_content_node onwards
\* process_content_node called with any search results and any URLs
\* already visited (visited_urls_updated = state.visited_urls.copy()),
\* followed by the nodes that run after it.
InitContent ==
  /\ pc = [t \in TaskIds |-> "at_process_content"]
  /\ must_cancel = [t \in TaskIds |-> FALSE]
  /\ task_result = [t \in TaskIds |-> "pending"]
  /\ is_cancelled_flag = [t \in TaskIds |-> FALSE]
  /\ \E results \in [TaskIds -> SUBSET Urls], visited \in [TaskIds -> SUBSET Urls] :
       state = [t \in TaskIds |->
                  [EmptyState EXCEPT !.executed_search_queries = {1},
                                     !.search_results_this_hop = results[t],
                                     !.visited_urls = visited[t]]]
  /\ local = [t \in TaskIds |-> EmptyLocal]
  /\ content_vector_status = "ready"
  /\ ignored_providers = {}
  /\ queue = [t \in TaskIds |-> EventsBeforeProcessContent]
  /\ enqueued = [t \in TaskIds |-> EventsBeforeProcessContent]
  /\ task_output_queues = TaskIds
  /\ active_tasks = TaskIds
  /\ callback = [t \in TaskIds |-> "waiting"]
  /\ stream = [t \in TaskIds |-> [s \in StreamIds |-> "none"]]
  /\ stream_yielded = [t \in TaskIds |-> [s \in StreamIds |-> NothingYielded]]
  /\ stream_exit = [t \in TaskIds |-> [s \in StreamIds |-> "none"]]
  /\ RegistryAtRest
  /\ ScrapeAtRest
  /\ LlmAtRest
  /\ CiteAtRest
  /\ TrustAtRest
  /\ FtsAtRest
  /\ SseAtRest
  /\ cancel_requests = [t \in TaskIds |-> 0]
  /\ node_log = [t \in TaskIds |->
                   [EmptyNodeLog EXCEPT
                      !["initialize_task"] = [start_flag |-> "unset", outcome |-> "returned", llm |-> "none"],
                      !["generate_search_queries"] = [start_flag |-> "unset", outcome |-> "returned", llm |-> "ok"],
                      !["web_search"] = [start_flag |-> "unset", outcome |-> "returned", llm |-> "none"]]]

ContentStep(t) ==
  \/ ProcessContent(t)
  \/ \E c \in SUBSET Urls : ProcessGathered(t, c)
  \/ SynthesizeReport(t)
  \/ \E res \in {"ok", "error"} : SynthesizeResume(t, res)
  \/ FinalizeTask(t)

NextContent ==
  /\ \E t \in TaskIds : ContentStep(t)
  /\ UNCHANGED <<registryVars, scrape, llm, cite, trust, fts, sse>>

SpecContent == InitContent /\ [][NextContent]_vars

\* --------------------------------------------------- _execute_llm_call
\* self.settings.LLM_CALL_MAX_RETRIES
max_retries == MaxRetries

Prompts == {"", "prompt"}

\* model_info: None, without a name, or naming a provider
ModelInfos == {"None", "no_name", "xai", "local", "other"}

\* what the model answered, as far as the JSON handling tells it apart: a
\* JSON object, a JSON array, an object that the cascade repairs (fenced,
\* surrounded by prose, trailing comma), a JSON scalar, prose without
\* braces or brackets; "empty" is no content at all
ContentKinds == {"object", "array", "repairable", "scalar", "prose", "empty"}

\* the repair cascade and json.loads of the local and the unified path:
\* the text from the first { or [ to the last } or ] with trailing commas
\* removed is parsed; no brace or bracket, or no parse, is a JSONDecodeError
ParseJson_any_value(content) ==
  IF content \in {"object", "repairable"} THEN "object"
  ELSE IF content = "array" THEN "array"
  ELSE IF content = "scalar" THEN "scalar"
  ELSE "JSONDecodeError"

ParseJson(content) ==
  IF content \in {"object", "repairable"} THEN "object"
  ELSE IF content = "array" THEN "array"
  ELSE "JSONDecodeError"

CacheKey(l) == <<l.path, l.format>>

\* return <value>; a value without error is written to call_cache first
\* where the code does so
Return(l, output, error, cached) ==
  llm' = [l EXCEPT !.pc = "returned",
                   !.result = [output |-> output, error |-> error],
                   !.call_cache = IF cached
                                  THEN [@ EXCEPT ![CacheKey(l)] = [output |-> output, error |-> error]]
                                  ELSE @]

\* an exception leaves _execute_llm_call
Raise(l, exception) ==
  llm' = [l EXCEPT !.pc = "raised", !.result = [output |-> "unset", error |-> exception]]

\* "if attempt < max_retries: await asyncio.sleep(delay); continue", else
\* the loop is left with the error and the call returns it
RetryOrGiveUp(l, output, error) ==
  IF l.attempt < max_retries
  THEN llm' = [l EXCEPT !.pc = "sleeping"]
  ELSE Return(l, output, error, FALSE)

llmFrame ==
  <<taskVars, streamVars, endpointVars, queue, enqueued, task_output_queues,
    active_tasks, callback, registryVars, scrape, cite, trust, fts, sse>>

\* the call up to the retry loop of its provider path
ExecuteLlmCall(prompt, model_info, expected_output_format, key_ok, user_id_ok) ==
  /\ llm.pc = "idle"
  /\ LET path == IF model_info = "other" THEN "unified" ELSE model_info
         l == [llm EXCEPT !.path = IF model_info \in {"None", "no_name"} THEN "none" ELSE path,
                          !.format = expected_output_format,
                          !.calls = @ + 1]
     IN IF l.flag
        THEN Return(l, "None", "Operation cancelled.", FALSE)
        ELSE IF prompt = "" \/ model_info = "None"
        THEN Raise(l, "ValueError")
        ELSE IF model_info # "no_name" /\ l.call_cache[CacheKey(l)] # NoResult
        THEN Return(l, l.call_cache[CacheKey(l)].output, l.call_cache[CacheKey(l)].error, FALSE)
        ELSE IF model_info = "no_name"
        THEN Raise(l, "ValueError")
        ELSE IF path = "xai" /\ ~key_ok
        THEN Return(l, "None", "xAI API key not found", FALSE)
        ELSE IF path = "local" /\ ~user_id_ok
        THEN Return(l, "None", "User ID missing", FALSE)
        ELSE llm' = [l EXCEPT !.pc = "loop"]
  /\ UNCHANGED llmFrame

\* "for attempt in range(max_retries + 1)": the flag check and the start
\* of the provider attempt.  On the xAI path the attempt is the call of
\* _call_xai_directly_async without its required parameter max_tokens.
LlmLoopHead ==
  /\ llm.pc = "loop"
  /\ IF llm.attempt > max_retries
     THEN Return(llm, IF llm.path = "unified" /\ llm.format = "json" THEN "{}"
                      ELSE IF llm.path = "unified" THEN "" ELSE "None",
                 "Max retries reached", FALSE)
     ELSE IF llm.flag
     THEN Return(llm, IF llm.path = "unified" /\ llm.format = "json" THEN "{}"
                      ELSE IF llm.path = "unified" THEN "" ELSE "None",
                 "Operation cancelled during retry.", FALSE)
     ELSE LET l == [llm EXCEPT !.attempts = @ + 1] IN
          IF l.path = "xai" THEN Raise(l, "TypeError")
          ELSE IF l.path = "local" THEN llm' = [l EXCEPT !.pc = "local_post", !.chunks = 0]
          ELSE llm' = [l EXCEPT !.pc = "unified_await"]
  /\ UNCHANGED llmFrame

\* asyncio.sleep(delay) is over; the next turn of the loop
LlmWakeUp ==
  /\ llm.pc = "sleeping"
  /\ llm' = [llm EXCEPT !.pc = "loop", !.attempt = @ + 1, !.sleeps = @ + 1]
  /\ UNCHANGED llmFrame

\* local path: session.post answers, or fails
LocalPostDone(status) ==
  /\ llm.pc = "local_post"
  /\ IF status = "200" THEN llm' = [llm EXCEPT !.pc = "local_stream"]
     ELSE IF status = "4xx" THEN Return(llm, "None", "Internal Node API Error", FALSE)
     ELSE IF status = "5xx" THEN RetryOrGiveUp(llm, "None", "Internal Node API Error")
     ELSE IF status = "ClientError" THEN RetryOrGiveUp(llm, "None", "HTTP/Timeout Error (Node API)")
     ELSE RetryOrGiveUp(llm, "None", "Node.js API call failed")
  /\ UNCHANGED llmFrame

LocalStreamChunk_unchecked ==
  /\ llm.pc = "local_stream"
  /\ llm.chunks < MaxChunks
  /\ llm' = [llm EXCEPT !.chunks = @ + 1]
  /\ UNCHANGED llmFrame

\* local path: iter_chunked yields a chunk; the flag is looked at first
LocalStreamChunk ==
  /\ llm.pc = "local_stream"
  /\ IF llm.flag
     THEN Return(llm, "None", "Operation cancelled.", FALSE)
     ELSE /\ llm.chunks < MaxChunks
          /\ llm' = [llm EXCEPT !.chunks = @ + 1]
  /\ UNCHANGED llmFrame

\* what the local path returns after the loop for the accumulated content
LocalResult(l, content) ==
  IF l.format = "json"
  THEN IF ParseJson(content) = "JSONDecodeError"
       THEN Return(l, "{}", "Failed to parse JSON", FALSE)
       ELSE Return(l, ParseJson(content), "None", TRUE)
  ELSE Return(l, IF content = "empty" THEN "" ELSE "text", "None", TRUE)

\* local path: the stream ends; content is what the chunks carried
LocalStreamEnds(content) ==
  /\ llm.pc = "local_stream"
  /\ llm.chunks = 0 => content = "empty"
  /\ LocalResult(llm, content)
  /\ UNCHANGED llmFrame

\* local path: reading the stream raises (TimeoutError, another exception)
LocalStreamFails(exception) ==
  /\ llm.pc = "local_stream"
  /\ IF exception = "TimeoutError"
     THEN RetryOrGiveUp(llm, "None", "HTTP/Timeout Error (Node API)")
     ELSE RetryOrGiveUp(llm, "None", "Node.js API call failed")
  /\ UNCHANGED llmFrame

UnifiedOutcomes == {"content", "length", "APIError", "RateLimitError", "Exception"}

\* unified path: litellm.acompletion returns or raises
UnifiedCompletionDone(outcome, content) ==
  /\ llm.pc = "unified_await"
  /\ LET default_output == IF llm.format = "json" THEN "{}" ELSE "" IN
     IF outcome = "length"
     THEN /\ content = "empty"
          /\ Return(llm, default_output, "LLM finished due to length", FALSE)
     ELSE IF outcome = "content"
     THEN IF content = "empty"
          THEN RetryOrGiveUp(llm, default_output, "LLM raw_content is empty.")
          ELSE IF llm.format = "json"
          THEN IF ParseJson(content) = "JSONDecodeError"
               THEN RetryOrGiveUp(llm, default_output, "LLM output not valid JSON")
               ELSE Return(llm, ParseJson(content), "None", TRUE)
          ELSE Return(llm, "text", "None", TRUE)
     ELSE /\ content = "empty"
          /\ RetryOrGiveUp(llm, default_output, outcome)
  /\ UNCHANGED llmFrame

\* another coroutine sets the asyncio.Event the call was given
LlmSetFlag ==
  /\ ~llm.flag
  /\ llm.pc \notin {"returned", "raised"}
  /\ llm' = [llm EXCEPT !.flag = TRUE, !.flag_set_in_stream = (llm.pc = "local_stream")]
  /\ UNCHANGED llmFrame

\* the adapter is called again, for another task; call_cache stays
LlmNextCall ==
  /\ llm.pc \in {"returned", "raised"}
  /\ llm.calls < MaxCalls
  /\ llm' = [IdleLlm EXCEPT !.call_cache = llm.call_cache, !.calls = llm.calls]
  /\ UNCHANGED llmFrame

InitLlm ==
  /\ pc = [t \in TaskIds |-> "none"]
  /\ must_cancel = [t \in TaskIds |-> FALSE]
  /\ task_result = [t \in TaskIds |-> "pending"]
  /\ is_cancelled_flag = [t \in TaskIds |-> FALSE]
  /\ state = [t \in TaskIds |-> EmptyState]
  /\ local = [t \in TaskIds |-> EmptyLocal]
  /\ content_vector_status = "uninitialized"
  /\ ignored_providers = {}
  /\ queue = [t \in TaskIds |-> <<>>]
  /\ enqueued = [t \in TaskIds |-> <<>>]
  /\ task_output_queues = {}
  /\ active_tasks = {}
  /\ callback = [t \in TaskIds |-> "none"]
  /\ stream = [t \in TaskIds |-> [s \in StreamIds |-> "none"]]
  /\ stream_yielded = [t \in TaskIds |-> [s \in StreamIds |-> NothingYielded]]
  /\ stream_exit = [t \in TaskIds |-> [s \in StreamIds |-> "none"]]
  /\ cancel_requests = [t \in TaskIds |-> 0]
  /\ node_log = [t \in TaskIds |-> EmptyNodeLog]
  /\ RegistryAtRest
  /\ llm = IdleLlm

NextLlm ==
  \/ \E prompt \in Prompts, model_info \in ModelInfos, expected_output_format \in Formats,
        key_ok \in BOOLEAN, user_id_ok \in BOOLEAN :
       ExecuteLlmCall(prompt, model_info, expected_output_format, key_ok, user_id_ok)
  \/ LlmLoopHead
  \/ LlmWakeUp
  \/ \E status \in {"200", "4xx", "5xx", "ClientError", "Exception"} : LocalPostDone(status)
  \/ LocalStreamChunk
  \/ \E content \in ContentKinds : LocalStreamEnds(content)
  \/ \E exception \in {"TimeoutError", "Exception"} : LocalStreamFails(exception)
  \/ \E outcome \in UnifiedOutcomes, content \in ContentKinds : UnifiedCompletionDone(outcome, content)
  \/ LlmSetFlag
  \/ LlmNextCall

SpecLlm == InitLlm /\ [][NextLlm]_vars

\* ------------------------------------------------------ utils/citations
\* A text is a sequence of tokens: a character, a short marker "[ident]",
\* an LLM marker "[ref: url]", or a line "- [ident] [title](url)" of the
\* sources section.  A URL is a non-empty string of characters, an
\* identifier a string of capital letters (or "S" and a number); no URL
\* matches a part of a marker, so a marker is one token.
Chars == 1..MaxChars

Char(c) == [kind |-> "char", url |-> <<c>>, ident |-> <<>>]

Marker(ident) == [kind |-> "marker", url |-> <<>>, ident |-> ident]

Ref(url) == [kind |-> "ref", url |-> url, ident |-> <<>>]

SourceLine(ident, url) == [kind |-> "source_line", url |-> url, ident |-> ident]

UrlStrings == UNION {[1..n -> Chars] : n \in 1..MaxUrlLen}

UrlLists == UNION {[1..n -> UrlStrings] : n \in 0..MaxListed}

Texts == UNION {[1..n -> {Char(c) : c \in Chars}] : n \in 0..MaxTextLen}

ascii_uppercase ==
  <<"A", "B", "C", "D", "E", "F", "G", "H", "I", "J", "K", "L", "M",
    "N", "O", "P", "Q", "R", "S", "T", "U", "V", "W", "X", "Y", "Z">>

\* "while index > 0: index, rem = divmod(index - 1, 26); result = letters[rem] + result"
RECURSIVE NextIdentifierLoop(_, _)
NextIdentifierLoop(index, result) ==
  IF index > 0
  THEN NextIdentifierLoop((index - 1) \div 26,
                          <<ascii_uppercase[((index - 1) % 26) + 1]>> \o result)
  ELSE result

_next_identifier(index) == NextIdentifierLoop(index + 1, <<>>)

\* A dict of identifier to URL, in insertion order: a sequence of items
\* with distinct identifiers.
Item(ident, url) == [ident |-> ident, url |-> url]

Idents(mapping) == {mapping[i].ident : i \in DOMAIN mapping}

MapUrls(mapping) == {mapping[i].url : i \in DOMAIN mapping}

MapGet(mapping, ident) ==
  mapping[CHOOSE i \in DOMAIN mapping : mapping[i].ident = ident].url

\* mapping[identifier] = url: an existing key keeps its place and gets the
\* new value
MapSet(mapping, identifier, url) ==
  IF identifier \in Idents(mapping)
  THEN [i \in DOMAIN mapping |->
          IF mapping[i].ident = identifier THEN Item(identifier, url) ELSE mapping[i]]
  ELSE Append(mapping, Item(identifier, url))

\* the identifiers of the items of mapping that carry url
IdentsOf(mapping, url) == {mapping[i].ident : i \in {j \in DOMAIN mapping : mapping[j].url = url}}

\* existing_map as a caller can hand it over: None / {} or a dict of up to
\* MaxExisting items under any of the first identifiers
ExistingIdents == {_next_identifier(i) : i \in 0..MaxExisting}

IsDict(mapping) ==
  \A i, j \in DOMAIN mapping : mapping[i].ident = mapping[j].ident => i = j

ExistingMaps ==
  {m \in UNION {[1..n -> {Item(id, u) : id \in ExistingIdents, u \in UrlStrings}] :
                  n \in 0..MaxExisting} : IsDict(m)}

RECURSIVE ResolveLoop_without_increment(_, _, _, _)
ResolveLoop_without_increment(urls, mapping, reverse, idx) ==
  IF urls = <<>> THEN mapping
  ELSE LET url == Head(urls)
       IN IF url \in reverse
          THEN ResolveLoop_without_increment(Tail(urls), mapping, reverse, idx)
          ELSE ResolveLoop_without_increment(Tail(urls),
                                             MapSet(mapping, _next_identifier(idx), url),
                                             reverse \cup {url}, idx)

\* the for-loop of resolve_urls; reverse is looked at for its keys only
RECURSIVE ResolveLoop(_, _, _, _)
ResolveLoop(urls, mapping, reverse, idx) ==
  IF urls = <<>> THEN mapping
  ELSE LET url == Head(urls)
       IN IF url \in reverse
          THEN ResolveLoop(Tail(urls), mapping, reverse, idx)
          ELSE ResolveLoop(Tail(urls), MapSet(mapping, _next_identifier(idx), url),
                           reverse \cup {url}, idx + 1)

resolve_urls_without_increment(urls, existing_map) ==
  ResolveLoop_without_increment(urls, existing_map, MapUrls(existing_map),
                                Len(existing_map))

resolve_urls(urls, existing_map) ==
  ResolveLoop(urls, existing_map, MapUrls(existing_map), Len(existing_map))

\* text starts with the characters of url
StartsWith(text, url) ==
  /\ Len(text) >= Len(url)
  /\ \A k \in 1..Len(url) : text[k] = Char(url[k])

\* re.sub(re.escape(url), repl, text): the occurrences of url from left to
\* right, none overlapping the one before
RECURSIVE re_sub(_, _, _)
re_sub(url, repl, text) ==
  IF text = <<>> THEN <<>>
  ELSE IF StartsWith(text, url)
  THEN <<repl>> \o re_sub(url, repl, SubSeq(text, Len(url) + 1, Len(text)))
  ELSE <<Head(text)>> \o re_sub(url, repl, Tail(text))

\* sorted(url_map.items(), key=lambda x: len(x[1]), reverse=True); the
\* sort is stable
RECURSIVE ItemsByLenDownFrom(_, _)
ItemsByLenDownFrom(url_map, n) ==
  IF n = 0 THEN <<>>
  ELSE SelectSeq(url_map, LAMBDA item : Len(item.url) = n)
         \o ItemsByLenDownFrom(url_map, n - 1)

SortedByLenReverse(url_map) ==
  ItemsByLenDownFrom(url_map,
                     CHOOSE n \in 0..MaxUrlLen + 1 :
                       /\ \A i \in DOMAIN url_map : Len(url_map[i].url) <= n
                       /\ n > 0 => \E i \in DOMAIN url_map : Len(url_map[i].url) = n)

RECURSIVE InsertLoop(_, _)
InsertLoop(items, processed) ==
  IF items = <<>> THEN processed
  ELSE InsertLoop(Tail(items),
                  re_sub(Head(items).url, Marker(Head(items).ident), processed))

insert_citation_markers(text, url_map) ==
  IF text = <<>> THEN text ELSE InsertLoop(SortedByLenReverse(url_map), text)

Tokens(text) == {text[i] : i \in DOMAIN text}

get_citations(text, url_map) ==
  SelectSeq(url_map, LAMBDA item : Marker(item.ident) \in Tokens(text))

\* the URLs of the [ref: URL] markers of text, in order; a marker whose URL
\* is blank is passed over
found_urls(text) ==
  LET refs == SelectSeq(text, LAMBDA tok : tok.kind = "ref" /\ tok.url # <<>>)
  IN [i \in DOMAIN refs |-> refs[i].url]

\* returns <<modified_text, identifier_to_url_map>>
extract_and_map_llm_citations(text_with_llm_markers) ==
  IF text_with_llm_markers = <<>> THEN <<<<>>, <<>>>>
  ELSE IF found_urls(text_with_llm_markers) = <<>>
  THEN <<text_with_llm_markers, <<>>>>
  ELSE LET identifier_to_url_map == resolve_urls(found_urls(text_with_llm_markers), <<>>)
           modified_text ==
             [i \in DOMAIN text_with_llm_markers |->
                LET tok == text_with_llm_markers[i]
                IN IF tok.kind = "ref" /\ tok.url \in MapUrls(identifier_to_url_map)
                   THEN Marker(CHOOSE id \in IdentsOf(identifier_to_url_map, tok.url) : TRUE)
                   ELSE tok]
       IN <<modified_text, identifier_to_url_map>>

\* The functions called one after the other on one input, as
\* test_citation_flow calls them.
ResolveUrls ==
  /\ cite.op = "input"
  /\ cite' = [cite EXCEPT !.op = "resolve_urls",
                          !.mapping = resolve_urls(cite.urls, cite.existing_map)]

InsertCitationMarkers ==
  /\ cite.op = "resolve_urls"
  /\ cite' = [cite EXCEPT !.op = "insert_citation_markers",
                          !.processed = insert_citation_markers(cite.text, cite.mapping)]

GetCitations ==
  /\ cite.op = "insert_citation_markers"
  /\ cite' = [cite EXCEPT !.op = "get_citations",
                          !.citations = get_citations(cite.processed, cite.mapping)]

citeFrame ==
  <<taskVars, streamVars, endpointVars, queue, enqueued, task_output_queues,
    active_tasks, callback, registryVars, scrape, llm, trust, fts, sse>>

\* everything but the citation state is as at service start
AllButCiteAtStart ==
  /\ pc = [t \in TaskIds |-> "none"]
  /\ must_cancel = [t \in TaskIds |-> FALSE]
  /\ task_result = [t \in TaskIds |-> "pending"]
  /\ is_cancelled_flag = [t \in TaskIds |-> FALSE]
  /\ state = [t \in TaskIds |-> EmptyState]
  /\ local = [t \in TaskIds |-> EmptyLocal]
  /\ content_vector_status = "uninitialized"
  /\ ignored_providers = {}
  /\ queue = [t \in TaskIds |-> <<>>]
  /\ enqueued = [t \in TaskIds |-> <<>>]
  /\ task_output_queues = {}
  /\ active_tasks = {}
  /\ callback = [t \in TaskIds |-> "none"]
  /\ stream = [t \in TaskIds |-> [s \in StreamIds |-> "none"]]
  /\ stream_yielded = [t \in TaskIds |-> [s \in StreamIds |-> NothingYielded]]
  /\ stream_exit = [t \in TaskIds |-> [s \in StreamIds |-> "none"]]
  /\ cancel_requests = [t \in TaskIds |-> 0]
  /\ node_log = [t \in TaskIds |-> EmptyNodeLog]
  /\ now = 0
  /\ ignore_file = EmptyFile
  /\ last_call = NoCall
  /\ serial_file = EmptyFile
  /\ max_deadline = [q \in Providers |-> 0]
  /\ last_deadline = [q \in Providers |-> 0]
  /\ ScrapeAtRest
  /\ LlmAtRest

InitCitations ==
  /\ AllButCiteAtStart
  /\ TrustAtRest
  /\ FtsAtRest
  /\ SseAtRest
  /\ \E urls \in UrlLists, existing_map \in ExistingMaps, text \in Texts :
       cite = [IdleCite EXCEPT !.op = "input", !.urls = urls,
                               !.existing_map = existing_map, !.text = text]

NextCitations ==
  /\ \/ ResolveUrls
     \/ InsertCitationMarkers
     \/ GetCitations
  /\ UNCHANGED citeFrame

SpecCitations == InitCitations /\ [][NextCitations]_vars

\* ------------------------------------- synthesize_report_node, the report
\* agent_dialogue.SYNTHESIS_NO_CONTENT_FALLBACK, SYNTHESIS_DRAFT_ERROR_FALLBACK
SYNTHESIS_NO_CONTENT_FALLBACK ==
  <<[kind |-> "no_content_fallback", url |-> <<>>, ident |-> <<>>]>>

SYNTHESIS_DRAFT_ERROR_FALLBACK ==
  <<[kind |-> "draft_error_fallback", url |-> <<>>, ident |-> <<>>]>>

\* "\n\n---\n\n## Sources\n", "No primary web sources cited." and the
\* date-context footer
SourcesHeading == [kind |-> "sources_heading", url |-> <<>>, ident |-> <<>>]

NoSourcesLine == [kind |-> "no_sources", url |-> <<>>, ident |-> <<>>]

ReportDateLine == [kind |-> "date_line", url |-> <<>>, ident |-> <<>>]

\* what the LLM can write: characters and [ref: URL] markers, the URL of a
\* marker any URL or blank
DraftTokens == {Char(1)} \cup {Ref(url) : url \in UrlStrings \cup {<<>>}}

Drafts == UNION {[1..n -> DraftTokens] : n \in 0..MaxTextLen}

\* synthesize_initial_draft's answers: {"draft_text": ..., "usage": ..., "error": ...}
DraftResponses == {[draft_text |-> d] : d \in Drafts}

\* state.processed_chunks_this_hop, as far as the report goes: the
\* original_url of the chunks
ChunkUrlSets == {c \in SUBSET UrlStrings : Cardinality(c) <= MaxListed}

\* models.ReportSourceItem(**keywords): url and citation_marker are
\* required fields
ReportSourceItem(keywords) ==
  IF {"url", "citation_marker"} \subseteq keywords
  THEN "ReportSourceItem" ELSE "ValidationError"

\* str.__lt__
RECURSIVE UrlLess(_, _)
UrlLess(a, b) ==
  IF a = <<>> THEN b # <<>>
  ELSE IF b = <<>> THEN FALSE
  ELSE IF Head(a) = Head(b) THEN UrlLess(Tail(a), Tail(b))
  ELSE Head(a) < Head(b)

\* source_items.sort(key=lambda x: x.url)
RECURSIVE SortedUrls(_)
SortedUrls(all_contributing_urls) ==
  IF all_contributing_urls = {} THEN <<>>
  ELSE LET first == CHOOSE x \in all_contributing_urls :
                      \A y \in all_contributing_urls \ {x} : UrlLess(x, y)
       IN <<first>> \o SortedUrls(all_contributing_urls \ {first})

DecimalDigits == <<"1", "2", "3", "4", "5", "6", "7", "8", "9">>

\* f"[S{next_s_marker}]"
SMarker(next_s_marker) == <<"S", DecimalDigits[next_s_marker]>>

\* the source items after the two loops over them: sorted by URL and
\* numbered in that order
SourceItems(all_contributing_urls) ==
  LET sorted == SortedUrls(all_contributing_urls)
  IN [k \in DOMAIN sorted |-> [url |-> sorted[k], citation_marker |-> SMarker(k)]]

\* final_report_md_with_sources_and_date
ReportWithSourcesAndDate(report_with_short_markers, all_contributing_urls, task_date_context) ==
  LET source_items == SourceItems(all_contributing_urls)
      sources_md_lines ==
        <<SourcesHeading>>
          \o (IF all_contributing_urls # {}
              THEN [k \in DOMAIN source_items |->
                      SourceLine(source_items[k].citation_marker, source_items[k].url)]
              ELSE <<NoSourcesLine>>)
  IN report_with_short_markers
       \o (IF task_date_context THEN <<ReportDateLine>> ELSE <<>>)
       \o sources_md_lines

\* the node up to the draft call
SynthesizeReportNode ==
  /\ cite.op = "at_synthesize_report"
  /\ LET first == <<SSEEvent("progress", "synthesis_start", "synthesize_report")>>
     IN IF cite.chunks = {}
        THEN cite' = [cite EXCEPT
                        !.op = "returned",
                        !.events = first \o <<SSEEvent("markdown_chunk", "final", "synthesize_report")>>,
                        !.final_report_md = SYNTHESIS_NO_CONTENT_FALLBACK,
                        !.report_sources = <<>>]
        ELSE cite' = [cite EXCEPT !.op = "syn_await_llm", !.events = first]

\* the node from the answer of synthesize_initial_draft on.  With a
\* contributing URL the first ReportSourceItem(url=url, title=title)
\* raises: the state keeps final_report_md and report_sources as they
\* were, and no markdown_chunk is put.
SynthesizeDraftReturns(draft_synthesis_response) ==
  /\ cite.op = "syn_await_llm"
  /\ LET final_report_md ==
           IF "draft_text" \in DOMAIN draft_synthesis_response
           THEN draft_synthesis_response.draft_text
           ELSE SYNTHESIS_DRAFT_ERROR_FALLBACK
         report_with_short_markers == extract_and_map_llm_citations(final_report_md)[1]
         all_contributing_urls == cite.chunks
     IN IF \E url \in all_contributing_urls :
             ReportSourceItem({"url", "title"}) = "ValidationError"
        THEN cite' = [cite EXCEPT
                        !.op = "raised",
                        !.draft = final_report_md,
                        !.report_with_short_markers = report_with_short_markers]
        ELSE cite' = [cite EXCEPT
                        !.op = "returned",
                        !.draft = final_report_md,
                        !.report_with_short_markers = report_with_short_markers,
                        !.events = @ \o <<SSEEvent("markdown_chunk", "final", "synthesize_report")>>,
                        !.final_report_md =
                           ReportWithSourcesAndDate(report_with_short_markers,
                                                    all_contributing_urls,
                                                    cite.task_date_context),
                        !.report_sources = SourceItems(all_contributing_urls)]

InitReport ==
  /\ AllButCiteAtStart
  /\ TrustAtRest
  /\ FtsAtRest
  /\ SseAtRest
  /\ \E chunks \in ChunkUrlSets, task_date_context \in BOOLEAN :
       cite = [IdleCite EXCEPT !.op = "at_synthesize_report", !.chunks = chunks,
                               !.task_date_context = task_date_context]

NextReport ==
  /\ \/ SynthesizeReportNode
     \/ \E draft_synthesis_response \in DraftResponses :
          SynthesizeDraftReturns(draft_synthesis_response)
  /\ UNCHANGED citeFrame

SpecReport == InitReport /\ [][NextReport]_vars

\* ---------------------------------------------------------------- claims
\* positions of the terminal events among everything put on t's queue
TerminalPositions(t) == {i \in 1..Len(enqueued[t]) : IsTerminal(enqueued[t][i])}

\* the events put on t's queue by node n
PutBy(t, n) == {i \in 1..Len(enqueued[t]) : enqueued[t][i].node = n}

\* C1: over its whole life a task's queue receives exactly one terminal
\* event (never two; and exactly one once the background task is over), and
\* the None sentinel is put on the queue after it.
C1_ExactlyOneTerminalThenSentinel ==
  \A t \in TaskIds :
    /\ Cardinality(TerminalPositions(t)) <= 1
    /\ pc[t] = "done" =>
         /\ Cardinality(TerminalPositions(t)) = 1
         /\ enqueued[t][Len(enqueued[t])] = NoneSentinel

\* C2: the terminal event is the last event enqueued before the sentinel:
\* whatever is put on the queue right after a terminal event is the sentinel.
C2_TerminalIsLastBeforeSentinel ==
  \A t \in TaskIds :
    \A i \in TerminalPositions(t) :
      i < Len(enqueued[t]) => enqueued[t][i + 1] = NoneSentinel

\* C3: a stream of a task that reached its terminal event observes exactly
\* one terminal event and closes right after it: a stream never yields two
\* terminal events, and a stream that left its loop (other than by the
\* client going away) has yielded one terminal event as the last thing.
C3_StreamObservesOneTerminalThenCloses ==
  \A t \in TaskIds : \A s \in StreamIds :
    /\ stream_yielded[t][s].terminals <= 1
    /\ (stream[t][s] = "closed" /\ stream_exit[t][s] # "disconnected") =>
         /\ stream_yielded[t][s].terminals = 1
         /\ stream_yielded[t][s].last \in TerminalTypes

\* C4: a cancel request accepted for a running task leads to a cancelled
\* event for the task's stream, whatever await the graph was in: once the
\* background task is over, a cancelled event has been put on its queue.
C4_CancelLeadsToCancelledEvent ==
  \A t \in TaskIds :
    (CancelAccepted(t) /\ pc[t] = "done") =>
      \E i \in 1..Len(enqueued[t]) : enqueued[t][i].type = "cancelled"

\* C5: after a running task has been cancelled through POST /cancel (the
\* request was accepted, the task is over and its cancelled event is
\* enqueued), GET /status answers cancelled while the task is registered.
C5_StatusCancelledAfterCancel ==
  \A t \in TaskIds :
    ( /\ CancelAccepted(t)
      /\ pc[t] = "done"
      /\ \E i \in 1..Len(enqueued[t]) : enqueued[t][i].type = "cancelled"
      /\ t \in active_tasks )
    => get_task_status(t) = "cancelled"

\* C6: a task that is neither cancelled nor stopped by an error (no cancel
\* request, cancellation signal never set, no LLM error result) runs the six
\* stages in order and its one terminal event is the complete event put by
\* finalize_task.
C6_UndisturbedTaskEndsWithComplete ==
  \A t \in TaskIds :
    ( /\ pc[t] = "done"
      /\ ~CancelAccepted(t)
      /\ ~is_cancelled_flag[t]
      /\ \A n \in Nodes : node_log[t][n].llm # "error" )
    => /\ \A n \in Nodes : node_log[t][n].outcome = "returned"
       /\ \E i \in PutBy(t, "finalize_task") :
            /\ enqueued[t][i].type = "complete"
            /\ TerminalPositions(t) = {i}

\* C7: no graph stage raises an exception to the graph runtime.
C7_StagesNeverRaise ==
  \A t \in TaskIds : \A n \in Nodes : node_log[t][n].outcome # "raised"

\* C8: a stage that starts with the cancellation signal already set puts no
\* non-terminal event (progress, markdown_chunk) on the queue.
C8_NoNonTerminalEventWhenFlagSetAtStart ==
  \A t \in TaskIds : \A n \in Nodes :
    node_log[t][n].start_flag = "set" =>
      \A i \in PutBy(t, n) : IsTerminal(enqueued[t][i])

\* C9: when the LLM call of generate_search_queries or synthesize_report
\* returned an error, the stage, once over, has put an error event on the
\* queue and the cancellation signal is set.
C9_LlmErrorBecomesErrorEventAndFlag ==
  \A t \in TaskIds : \A n \in {"generate_search_queries", "synthesize_report"} :
    (node_log[t][n].llm = "error" /\ node_log[t][n].outcome \notin {"notrun", "running"}) =>
      /\ \E i \in PutBy(t, n) : enqueued[t][i].type = "error"
      /\ is_cancelled_flag[t]

\* C10: every stream yields the task's events in the order in which they
\* were enqueued, from the first one on, none skipped.
C10_StreamYieldsInFifoOrder ==
  \A t \in TaskIds : \A s \in StreamIds : stream_yielded[t][s].fifo

\* C11: a step of one task (its graph run, its create, stream, cancel and
\* cleanup handlers) leaves everything that belongs to any other task
\* unchanged: no event added, no queue removed, no cancellation.
C11_StepOfOneTaskLeavesOthersUnchanged ==
  [][\A a \in TaskIds :
       (SourceGraphStep(a) \/ GatewayStep(a, FrameStreamIds)) =>
         \A b \in TaskIds \ {a} : TaskView(b)' = TaskView(b)]_vars

\* two registered tasks with events, the first cancelled and over with its
\* stream closed, the second neither cancelled nor over, its queue registered
C11_Witness ==
  /\ {"t1", "t2"} \subseteq active_tasks
  /\ CancelAccepted("t1") /\ pc["t1"] = "done" /\ stream["t1"][1] = "closed"
  /\ ~CancelAccepted("t2") /\ ~must_cancel["t2"] /\ pc["t2"] # "done"
  /\ enqueued["t2"] # <<>>
  /\ "t2" \in task_output_queues

\* C12: a search pass never dispatches a call to a provider that is in the
\* rate-limit registry at that moment, and when no provider of the caller's
\* list and of the fallback list is left it returns at once with an error
\* map and no call.
C12_NoDispatchToIgnoredProvider ==
  [][\A t \in TaskIds :
       /\ Dispatches(t) => local'[t].provider \notin ignored_providers
       /\ (pc[t] = "ws_loop" /\ ActiveProviders(ignored_providers) = {}) =>
            ~Dispatches(t)]_vars

\* C13 (as stated): after mark(provider, d), every is_ignored(provider)
\* call made before d has elapsed returns true, unless a remove of that
\* provider or a clear came in between.  max_deadline is the latest end
\* among the marks of the provider since the last remove or clear.
C13_IgnoredUntilDurationElapsed ==
  (/\ last_call.op = "is_provider_ignored"
   /\ last_call.at < max_deadline[last_call.provider]) => last_call.answer

\* C13 (amended): after mark(provider, d), every is_ignored(provider) call
\* made before d has elapsed returns true, unless a remove of that
\* provider, a clear or a later mark of that provider came in between.
C13_IgnoredUntilLastMarkElapses ==
  (/\ last_call.op = "is_provider_ignored"
   /\ last_call.at < last_deadline[last_call.provider]) => last_call.answer

\* a call made some time after the mark and before its duration is over
C13_Witness ==
  /\ last_call.op = "is_provider_ignored"
  /\ last_call.at > 0
  /\ last_call.at < last_deadline[last_call.provider]
  /\ last_call.answer

\* C14: after a read of the registry (get_ignored_providers or
\* is_provider_ignored) made at time t, neither the returned dictionary nor
\* the file holds an entry whose expiry is at or before t.
C14_ReadLeavesNoExpiredEntry ==
  last_call.op \in {"get_ignored_providers", "is_provider_ignored"} =>
    /\ \A q \in DOMAIN last_call.returned :
         last_call.returned[q].iso /\ last_call.returned[q].at > last_call.at
    /\ \A q \in DOMAIN ignore_file :
         ignore_file[q].iso /\ ignore_file[q].at > last_call.at

\* a read that found an expired entry, dropped it and kept another one
C14_Witness ==
  /\ last_call.op = "get_ignored_providers"
  /\ last_call.resaved
  /\ last_call.at > 0
  /\ DOMAIN last_call.returned # {}

ProviderFails(t) == \E o \in ProviderOutcomes \ {"results"} : ProviderCallDone(t, o, {})

\* C16: in a search pass the failure of one provider does not abort the
\* pass: the failure is recorded in provider_errors under the provider's
\* key, the results gathered so far and the providers still to call are
\* kept, every provider still to call is called next, and when none is left
\* the pass returns its results to web_search, which enqueues one progress
\* event per error and no error event.
C16_ProviderFailureDoesNotAbortPass ==
  [][\A t \in TaskIds :
       /\ ProviderFails(t) =>
            /\ local[t].provider \in local'[t].provider_errors
            /\ local'[t].providers_left = local[t].providers_left
            /\ local'[t].all_search_metadata = local[t].all_search_metadata
            /\ pc'[t] = "ws_providers"
       /\ (pc[t] = "ws_providers" /\ pc'[t] # "ws_providers" /\ ~is_cancelled_flag[t]) =>
            IF local[t].providers_left # <<>>
            THEN /\ Dispatches(t)
                 /\ local'[t].provider = Head(local[t].providers_left)
            ELSE /\ pc'[t] = "ws_loop"
                 /\ local'[t].results_this_node =
                      local[t].results_this_node \cup local[t].all_search_metadata
                 /\ Len(enqueued'[t]) = Len(enqueued[t]) + Cardinality(local[t].provider_errors)
                 /\ \A i \in 1..Len(enqueued'[t]) : enqueued'[t][i].type = "progress"]_vars

\* the pass is about to return: an earlier provider failed, the provider
\* called last gave results
C16_Witness ==
  /\ pc["t1"] = "ws_providers"
  /\ local["t1"].providers_left = <<>>
  /\ local["t1"].provider_errors # {}
  /\ local["t1"].provider \notin local["t1"].provider_errors
  /\ local["t1"].all_search_metadata # {}

\* C17: every provider call failure in a search pass marks the failing
\* provider in the rate-limit ignore list, so that the provider is ignored
\* from the failure on, and so right after the pass.
C17_EveryFailureMarksProvider ==
  [][\A t \in TaskIds :
       ProviderFails(t) => local[t].provider \in ignored_providers']_vars

\* C18: a scrape subprocess that is still running when the configured
\* timeout has elapsed is killed (and the call returns a content-less item
\* with an error): no subprocess is running past the timeout.
C18_NoSubprocessRunsPastTimeout ==
  \A t \in TaskIds, u \in Urls :
    scrape[t][u].elapsed > LIVE_SEARCH_SCRAPY_SUBPROCESS_TIMEOUT =>
      /\ scrape[t][u].proc # "running"
      /\ scrape[t][u].co = "returned" => scrape[t][u].item = "error"

\* C19: once a task has been cancelled and has finished, none of its
\* scrape subprocesses is running.
C19_NoSubprocessRunsAfterCancel ==
  \A t \in TaskIds :
    (CancelAccepted(t) /\ pc[t] = "done") =>
      \A u \in Urls : scrape[t][u].proc # "running"

\* the URLs of task t whose scrape failed: the subprocess could not be
\* started, crashed, gave no usable output or gave an item without content
FailedScrapes(t) ==
  {u \in local[t].urls_being_scraped : scrape[t][u].item \in {"error", "no_content"}}

C21_AtMostMaxRetriesPlusOneAttemptsThenReturns ==
  /\ llm.attempts <= max_retries + 1
  /\ llm.attempts <= llm.sleeps + 1
  /\ llm.attempts > 0 => llm.pc # "raised"

\* C22: with expected_output_format = "json", a response that cannot be
\* parsed after the repair cascade leads to another attempt as long as the
\* retry budget is not used up, on every provider path: a call returns a
\* JSON parse error only after max_retries + 1 attempts.
C22_JsonParseFailureRetriedWithinBudget ==
  (/\ llm.pc = "returned"
   /\ llm.attempts > 0
   /\ llm.result.error \in {"Failed to parse JSON", "LLM output not valid JSON"}) =>
    llm.attempts = max_retries + 1

\* C23: a call with expected_output_format = "json" that returns without
\* an error returns a JSON object or array as output, whether computed or
\* taken from call_cache.
C23_JsonOutputIsObjectOrArray ==
  (llm.pc = "returned" /\ llm.format = "json" /\ llm.result.error = "None") =>
    llm.result.output \in {"object", "array"}

\* the local path has returned an array read from the stream
C23_Witness ==
  /\ llm.pc = "returned"
  /\ llm.path = "local"
  /\ llm.format = "json"
  /\ llm.chunks > 0
  /\ llm.result = [output |-> "array", error |-> "None"]

\* C24: _execute_llm_call never raises to its caller, whatever its input
\* and provider path.
C24_ExecuteNeverRaises == llm.pc # "raised"

CancelledErrors == {"Operation cancelled.", "Operation cancelled during retry."}

\* C25 (as stated): if the flag is set while the SSE stream of the local
\* endpoint is being read, the call returns an "Operation cancelled" error
\* without output and caches nothing.
C25_FlagSetInStreamCancelsCall ==
  (llm.pc = "returned" /\ llm.flag_set_in_stream) =>
    /\ llm.result.output = "None"
    /\ llm.result.error \in CancelledErrors
    /\ llm.call_cache[CacheKey(llm)] = NoResult

\* C25 (amended): if the flag is set when a chunk of the SSE stream of the
\* local endpoint arrives, the read is abandoned at that chunk: the call
\* returns an "Operation cancelled" error without output and call_cache is
\* left as it was.
C25_FlagSeenAtChunkCancelsCall ==
  [][(llm.pc = "local_stream" /\ llm.flag /\ LocalStreamChunk) =>
       /\ llm'.pc = "returned"
       /\ llm'.result = [output |-> "None", error |-> "Operation cancelled."]
       /\ llm'.call_cache = llm.call_cache]_vars

\* chunks had been read when the flag was set; the call was cancelled
C25_Witness ==
  /\ llm.pc = "returned"
  /\ llm.flag_set_in_stream
  /\ llm.chunks > 0
  /\ llm.result = [output |-> "None", error |-> "Operation cancelled."]
  /\ llm.call_cache = EmptyCache

\* the final markdown_chunk events (is_final_chunk = true) put by
\* synthesize_report_node on t's queue
FinalMarkdownChunks(t) ==
  {i \in PutBy(t, "synthesize_report") :
     enqueued[t][i].type = "markdown_chunk" /\ enqueued[t][i].stage = "final"}

\* C26: every run of synthesize_report that was not cut short by a
\* cancellation enqueues exactly one markdown_chunk event, and that event
\* has is_final_chunk = true (the fallback markdown when the hop has no
\* chunks).
C26_ExactlyOneFinalMarkdownChunk ==
  \A t \in TaskIds :
    node_log[t]["synthesize_report"].outcome \in {"returned", "raised"} =>
      Cardinality(FinalMarkdownChunks(t)) = 1

\* the URLs of a list
Listed(urls) == {urls[i] : i \in DOMAIN urls}

\* url stands in text from position i on
OccursAt(url, text, i) == StartsWith(SubSeq(text, i, Len(text)), url)

Occurs(url, text) == \E i \in 1..Len(text) : OccursAt(url, text, i)

Span(url, i) == i..(i + Len(url) - 1)

\* url has an occurrence in text that overlaps no occurrence of another
\* URL of the list
OccursClearOfOthers(url, urls, text) ==
  \E i \in 1..Len(text) :
    /\ OccursAt(url, text, i)
    /\ \A v \in Listed(urls) \ {url}, j \in 1..Len(text) :
         OccursAt(v, text, j) => Span(url, i) \cap Span(v, j) = {}

\* the result text holds a marker of url and get_citations returned the
\* mapping entry of that marker
MarkedAndCited(url) ==
  \E id \in IdentsOf(cite.mapping, url) :
    /\ Marker(id) \in Tokens(cite.processed)
    /\ Item(id, url) \in Tokens(cite.citations)

RoundTripDone == cite.op = "get_citations" /\ cite.existing_map = <<>>

\* C29 as stated: after insert_citation_markers(text, resolve_urls(urls))
\* and get_citations on the result, every listed URL that appears
\* literally in the input text has its marker in the result text and its
\* mapping entry in the citations.
C29_MarkerOfEachListedUrlInText ==
  RoundTripDone =>
    \A url \in Listed(cite.urls) : Occurs(url, cite.text) => MarkedAndCited(url)

\* C29, amended: after insert_citation_markers(text, resolve_urls(urls))
\* and get_citations on the result, every listed URL that has an
\* occurrence in the input text overlapping no occurrence of another
\* listed URL has its marker in the result text and its mapping entry in
\* the citations.
C29_MarkerOfEachListedUrlStandingClear ==
  RoundTripDone =>
    \A url \in Listed(cite.urls) :
      OccursClearOfOthers(url, cite.urls, cite.text) => MarkedAndCited(url)

C29_Witness ==
  /\ RoundTripDone
  /\ Len(cite.urls) = 2
  /\ cite.urls[1] # cite.urls[2]
  /\ Len(cite.urls[2]) > Len(cite.urls[1])
  /\ \A url \in Listed(cite.urls) :
       OccursClearOfOthers(url, cite.urls, cite.text) /\ MarkedAndCited(url)
  /\ Len(cite.citations) = 2

\* C30: the mapping resolve_urls(urls, existing_map) returns holds every
\* identifier-to-URL pair of existing_map unchanged, and no URL that
\* existing_map did not hold is under an identifier of existing_map.
C30_ExistingPairsKeptNewIdentifiersFresh ==
  cite.op \in {"resolve_urls", "insert_citation_markers", "get_citations"} =>
    /\ \A i \in DOMAIN cite.existing_map :
         /\ cite.existing_map[i].ident \in Idents(cite.mapping)
         /\ MapGet(cite.mapping, cite.existing_map[i].ident) = cite.existing_map[i].url
    /\ \A url \in Listed(cite.urls) \ MapUrls(cite.existing_map) :
         IdentsOf(cite.mapping, url) \cap Idents(cite.existing_map) = {}

ReportEnded == cite.op \in {"returned", "raised"}

\* the URLs the draft cites with a [ref: URL] marker
CitedUrls == Listed(found_urls(cite.draft))

\* C27: once synthesize_report has ended on a draft with [ref: URL]
\* markers, the final markdown holds a short marker in the place of each
\* of them, and for every marker in the final markdown exactly one line of
\* the sources section has the same marker, and that line carries the URL
\* the marker was assigned to when the draft was rewritten.
C27_EveryMarkerHasItsSourceLine ==
  (ReportEnded /\ CitedUrls # {}) =>
    LET md == cite.final_report_md
        assigned == extract_and_map_llm_citations(cite.draft)[2]
    IN /\ \A i \in DOMAIN cite.draft :
            (cite.draft[i].kind = "ref" /\ cite.draft[i].url # <<>>) =>
              (i \in DOMAIN md /\ md[i].kind = "marker")
       /\ \A i \in DOMAIN md :
            md[i].kind = "marker" =>
              /\ Cardinality({j \in DOMAIN md : md[j].kind = "source_line"
                                                /\ md[j].ident = md[i].ident}) = 1
              /\ \A j \in DOMAIN md :
                   (md[j].kind = "source_line" /\ md[j].ident = md[i].ident) =>
                     /\ md[i].ident \in Idents(assigned)
                     /\ md[j].url = MapGet(assigned, md[i].ident)

\* C28: once synthesize_report has ended for a hop with chunks, the
\* report_sources array and the sources section list the URLs cited by a
\* marker in the draft, each exactly once, and no other URL; the marker of
\* every listed source stands in the report body.
C28_SourcesAreTheCitedUrls ==
  (ReportEnded /\ cite.chunks # {}) =>
    LET md == cite.final_report_md
        listed == cite.report_sources
        lines == SelectSeq(md, LAMBDA tok : tok.kind = "source_line")
    IN /\ {listed[k].url : k \in DOMAIN listed} = CitedUrls
       /\ {lines[k].url : k \in DOMAIN lines} = CitedUrls
       /\ Len(listed) = Cardinality(CitedUrls)
       /\ Len(lines) = Cardinality(CitedUrls)
       /\ \A k \in DOMAIN listed :
            Marker(listed[k].citation_marker) \in Tokens(cite.report_with_short_markers)

\* the provider is in the file with an expiry that has not passed
IgnoredNow(q) ==
  q \in DOMAIN ignore_file /\ ignore_file[q].iso /\ ignore_file[q].at > now

\* C40 (as stated): marking a provider that is already ignored never moves
\* its expiry earlier.
C40_MarkNeverMovesExpiryEarlier ==
  [][\A q \in Providers :
       (/\ IgnoredNow(q)
        /\ last_call'.op = "add_or_update_provider"
        /\ last_call'.provider = q) =>
         (ignore_file'[q].iso /\ ignore_file'[q].at >= ignore_file[q].at)]_vars

\* C40 (amended): a mark replaces the expiry of the provider by the time
\* of the mark plus the duration of the mark, whatever expiry the provider
\* had: right after a mark the file holds that expiry.
C40_MarkReplacesExpiry ==
  last_call.op = "add_or_update_provider" =>
    /\ last_call.provider \in DOMAIN ignore_file
    /\ ignore_file[last_call.provider] = isoformat(last_deadline[last_call.provider])

\* a mark has just moved an expiry that had not passed to an earlier time
C40_Witness ==
  /\ last_call.op = "add_or_update_provider"
  /\ last_call.at = now
  /\ last_deadline[last_call.provider] < max_deadline[last_call.provider]
  /\ max_deadline[last_call.provider] > now
  /\ ignore_file[last_call.provider] = isoformat(last_deadline[last_call.provider])

\* the queries of a list
QueriesOf(queries) == {queries[i] : i \in DOMAIN queries}

\* C32: when web_search returns, the queries it started a search pass for
\* are exactly the generated queries that were not in
\* executed_search_queries, and every one of them is in
\* executed_search_queries of the state it returns.
C32_SearchedExactlyTheUnexecutedQueries ==
  [][\A t \in TaskIds :
       (pc[t] \in {"at_web_search", "ws_loop"} /\ pc'[t] = "at_process_content") =>
         /\ QueriesOf(local[t].passes_started)
              = QueriesOf(state[t].current_queries_for_hop)
                  \ state[t].executed_search_queries
         /\ QueriesOf(local[t].passes_started) \subseteq state'[t].executed_search_queries]_vars

\* web_search has returned for two generated queries of which the first
\* had been executed before: one pass, for the second
C32_Witness ==
  \E t \in TaskIds :
    /\ pc[t] = "at_process_content"
    /\ node_log[t]["web_search"].outcome = "returned"
    /\ state[t].current_queries_for_hop = <<1, 2>>
    /\ local[t].passes_started = <<2>>
    /\ state[t].executed_search_queries = {1, 2}

\* C33: visited_urls only grows: no step of process_content_node or of a
\* later node removes a URL from it, the node adds nothing but URLs of this
\* hop's search results, and when all of them are visited already the set
\* is left as it was.
C33_VisitedUrlsOnlyGrow ==
  [][\A t \in TaskIds :
       /\ state[t].visited_urls \subseteq state'[t].visited_urls
       /\ state'[t].visited_urls \subseteq
            state[t].visited_urls \cup state[t].search_results_this_hop
       /\ state[t].search_results_this_hop \subseteq state[t].visited_urls =>
            state'[t].visited_urls = state[t].visited_urls]_vars

C33_Witness ==
  \E t \in TaskIds :
    /\ node_log[t]["process_content"].outcome = "returned"
    /\ node_log[t]["synthesize_report"].outcome # "notrun"
    /\ local[t].urls_being_scraped = {}
    /\ pc[t] \notin {"at_process_content", "pc_gather", "at_synthesize_report"}
    /\ state[t].search_results_this_hop = Urls
    /\ state[t].visited_urls = Urls

\* task t starts scraping in this step: process_content_node hands URLs
\* to scrape_url, which spawns one subprocess per URL
StartsScrape(t) ==
  pc[t] # "pc_gather" /\ pc'[t] = "pc_gather" /\ local'[t].urls_being_scraped # {}

\* task t starts an LLM attempt in this step
StartsLlmAttempt(t) ==
  pc[t] # pc'[t] /\ pc'[t] \in {"gen_await_llm", "syn_await_llm"}

\* C34: once POST /cancel has answered cancellation_requested for a task,
\* the task's graph starts no provider search call, no scrape and no LLM
\* attempt any more, whichever await the cancellation arrives in.
C34_NoNewWorkAfterCancelAccepted ==
  [][\A t \in TaskIds :
       CancelAccepted(t) =>
         ~(Dispatches(t) \/ StartsScrape(t) \/ StartsLlmAttempt(t))]_vars

\* C35: while a task is in active_tasks and its background task has not
\* finished, its queue is in task_output_queues, so that a stream request
\* made now is not answered with 500 "Inconsistent state".
C35_QueueRegisteredWhileTaskRuns ==
  \A t \in TaskIds :
    (t \in active_tasks /\ pc[t] # "done") =>
      /\ t \in task_output_queues
      /\ StreamResponse(t) # "http_500"

\* the stream requests of task t whose event_generator is running
Consumers(t) == {s \in StreamIds : stream[t][s] \in {"open", "terminal_yielded"}}

\* C38: at most one event_generator consumes a task's queue at any time,
\* so that no event is taken by a second stream while a first one is open.
C38_AtMostOneConsumerPerQueue ==
  \A t \in TaskIds : Cardinality(Consumers(t)) <= 1

\* C39: after a task has ended, its queue is eventually removed from
\* task_output_queues, also when no client ever opens the task's stream.
C39_QueueEventuallyUnregistered ==
  \A t \in TaskIds : (pc[t] = "done") ~> (t \notin task_output_queues)

\* ------------------------------------------------------------- FileLock
\* everything the domain trust store, the lock file and the SSE reader
\* leave alone
serviceVars ==
  <<taskVars, streamVars, endpointVars, queue, enqueued, task_output_queues,
    active_tasks, callback, registryVars, scrape, llm, cite>>

ServiceAtStart == AllButCiteAtStart /\ CiteAtRest

\* FileLock.__enter__: open(self.lock_file_path, 'w') opens the file the
\* name refers to, creating it (a new inode) when there is none
FileLockOpen(p) ==
  /\ fts.proc[p].pc = "start"
  /\ LET inode == IF fts.path = 0 THEN fts.inodes + 1 ELSE fts.path IN
     fts' = [fts EXCEPT !.path = inode,
                        !.inodes = IF fts.path = 0 THEN @ + 1 ELSE @,
                        !.proc[p] = [pc |-> "opened", fd |-> inode]]

\* FileLock.__enter__: fcntl.flock(LOCK_EX | LOCK_NB) on the opened file.
\* BlockingIOError is raised again and caught by initialize_resources,
\* which skips the indexing; __exit__ does not run then.
FileLockFlock(p) ==
  /\ fts.proc[p].pc = "opened"
  /\ LET inode == fts.proc[p].fd IN
     IF fts.holder[inode] = 0
     THEN fts' = [fts EXCEPT !.holder[inode] = p, !.proc[p].pc = "locked"]
     ELSE fts' = [fts EXCEPT !.proc[p].pc = "not_acquired"]

\* the body of the with statement: create_fts_index("textContent",
\* replace=True) returns or raises, __exit__ is entered either way
create_fts_index(p) ==
  /\ fts.proc[p].pc = "locked"
  /\ fts' = [fts EXCEPT !.proc[p].pc = "exiting"]

\* FileLock.__exit__: flock(LOCK_UN) and close()
FileLockUnlock(p) ==
  /\ fts.proc[p].pc = "exiting"
  /\ fts' = [fts EXCEPT !.holder[fts.proc[p].fd] = 0, !.proc[p].pc = "unlocked"]

\* FileLock.__exit__: os.remove(self.lock_file_path) unlinks whatever file
\* has the name now; OSError (no such file) is passed over
FileLockRemove(p) ==
  /\ fts.proc[p].pc = "unlocked"
  /\ fts' = [fts EXCEPT !.path = 0, !.proc[p] = [pc |-> "done", fd |-> 0]]

InitFileLock ==
  /\ ServiceAtStart
  /\ TrustAtRest
  /\ FtsAtRest
  /\ SseAtRest

NextFileLock ==
  /\ \E p \in Procs :
       \/ FileLockOpen(p)
       \/ FileLockFlock(p)
       \/ create_fts_index(p)
       \/ FileLockUnlock(p)
       \/ FileLockRemove(p)
  /\ UNCHANGED <<serviceVars, trust, sse>>

SpecFileLock == InitFileLock /\ [][NextFileLock]_vars

\* the processes inside the section guarded by FileLock
InsideFtsSection == {p \in Procs : fts.proc[p].pc = "locked"}

\* C36: at most one process at a time is inside the full-text index
\* creation/refresh section guarded by the file lock.
C36_AtMostOneProcessInFtsSection == Cardinality(InsideFtsSection) <= 1

\* ------------------------------------------------- local model SSE stream
\* The bytes of the response body, as far as the reader tells them apart:
\* a newline, one byte of a data line's JSON payload ("a"), the two bytes
\* of a two-byte UTF-8 character of such a payload ("u1", "u2"), and the
\* payload [DONE] ("done", taken as a whole).  Every line stands for its
\* "data: " line; its content token is the payload's text.
SseBytes == {"nl", "done", "a", "u1", "u2"}

SseStreams == UNION {[1..n -> SseBytes] : n \in 0..MaxBytes}

\* response.content.iter_chunked(8192): the stream arrives in chunks that
\* end after the bytes whose positions are in cuts, and at its end
RECURSIVE ChunksFrom(_, _, _, _)
ChunksFrom(body, cuts, i, chunk) ==
  IF i > Len(body) THEN <<>>
  ELSE LET longer == Append(chunk, body[i]) IN
       IF i = Len(body) THEN <<longer>>
       ELSE IF i \in cuts THEN <<longer>> \o ChunksFrom(body, cuts, i + 1, <<>>)
       ELSE ChunksFrom(body, cuts, i + 1, longer)

iter_chunked(body, cuts) == ChunksFrom(body, cuts, 1, <<>>)

\* chunk_bytes.decode('utf-8', errors='ignore'): a lead byte without its
\* continuation byte in the same chunk and a continuation byte without
\* its lead byte are dropped
RECURSIVE decode(_)
decode(chunk_bytes) ==
  IF chunk_bytes = <<>> THEN <<>>
  ELSE IF Head(chunk_bytes) = "u1"
  THEN IF Len(chunk_bytes) >= 2 /\ chunk_bytes[2] = "u2"
       THEN <<"u">> \o decode(Tail(Tail(chunk_bytes)))
       ELSE decode(Tail(chunk_bytes))
  ELSE IF Head(chunk_bytes) = "u2" THEN decode(Tail(chunk_bytes))
  ELSE <<Head(chunk_bytes)>> \o decode(Tail(chunk_bytes))

\* position of the first newline of a buffer that has one
FirstNewline(buffer) ==
  CHOOSE i \in 1..Len(buffer) :
    buffer[i] = "nl" /\ \A j \in 1..(i - 1) : buffer[j] # "nl"

\* json.loads(data_json_str) and delta.get("content"): a payload that is
\* not JSON (here: one that holds [DONE] next to other text) gives
\* JSONDecodeError, which is logged, and no token
content_token(line) ==
  IF \E i \in 1..Len(line) : line[i] = "done" THEN <<>> ELSE line

\* "while '\n' in buffer": complete lines are taken off the buffer; an
\* empty line is skipped, [DONE] leaves the while loop (break), any other
\* line adds its content token
RECURSIVE ProcessLines(_, _)
ProcessLines(buffer, content) ==
  IF \A i \in 1..Len(buffer) : buffer[i] # "nl"
  THEN [buffer |-> buffer, current_accumulated_content |-> content]
  ELSE LET n == FirstNewline(buffer)
           line == SubSeq(buffer, 1, n - 1)
           rest == SubSeq(buffer, n + 1, Len(buffer))
       IN IF line = <<"done">>
          THEN [buffer |-> rest, current_accumulated_content |-> content]
          ELSE ProcessLines(rest, content \o content_token(line))

\* one round of "async for chunk_bytes in ...": decode, add to the buffer,
\* process the complete lines
IterChunk ==
  /\ sse.pc = "reading"
  /\ sse.chunks # <<>>
  /\ LET after == ProcessLines(sse.buffer \o decode(Head(sse.chunks)),
                               sse.current_accumulated_content)
     IN sse' = [sse EXCEPT !.chunks = Tail(@),
                           !.buffer = after.buffer,
                           !.current_accumulated_content =
                              after.current_accumulated_content]

\* the stream is over: accumulated_content = current_accumulated_content
StreamCompleted ==
  /\ sse.pc = "reading"
  /\ sse.chunks = <<>>
  /\ sse' = [sse EXCEPT !.pc = "returned"]

InitSse ==
  /\ ServiceAtStart
  /\ TrustAtRest
  /\ FtsAtRest
  /\ \E body \in SseStreams, cuts \in SUBSET (1..(MaxBytes - 1)) :
       /\ \A i \in cuts : i < Len(body)
       /\ sse = [IdleSse EXCEPT !.pc = "reading", !.stream = body,
                                !.chunks = iter_chunked(body, cuts)]

NextSse ==
  /\ IterChunk \/ StreamCompleted
  /\ UNCHANGED <<serviceVars, trust, fts>>

SpecSse == InitSse /\ [][NextSse]_vars

\* what the stream says when it is read in one piece: the content tokens
\* of its complete lines up to the first [DONE]
ContentUpToDone(body) ==
  ProcessLines(decode(body), <<>>).current_accumulated_content

\* C37: the content accumulated from the SSE stream depends on the byte
\* stream only, however it is cut into chunks, and holds nothing of a data
\* line that follows data: [DONE]: it is the content of the stream's
\* complete lines up to the first [DONE].
C37_ContentIndependentOfChunking ==
  sse.pc = "returned" => sse.current_accumulated_content = ContentUpToDone(sse.stream)

\* ----------------------------------------------------- domain trust store
\* _get_domain_age_days: None when WHOIS gives nothing, else the age
\* stands for None among the ages
NoAge == 0 - 1

AgeDays == {NoAge, 100, 2000}

\* max(lo, min(hi, x))
Unclamped(lo, hi, x) == x

Clamp(lo, hi, x) == IF x < lo THEN lo ELSE IF x > hi THEN hi ELSE x

\* domain.endswith(tld) for tld in (".gov", ".edu", ".org")
EndsWithTrustedTld(domain) ==
  Len(domain) >= 2 /\ domain[Len(domain)] \in {"gov", "edu", "org"}

\* the score of a domain without a row: 0.4, 0.05 for https, 0.1 for an
\* age over 730 days or -0.05 for one under 180, 0.1 for a trusted TLD,
\* kept within [0.05, 0.95] and rounded to three places
provisional_score(domain, is_https, age) ==
  Clamp(50, 950,
        400 + (IF is_https = "True" THEN 50 ELSE 0)
            + (IF age # NoAge /\ age > 730 THEN 100
               ELSE IF age # NoAge /\ age < 180 THEN 0 - 50 ELSE 0)
            + (IF EndsWithTrustedTld(domain) THEN 100 ELSE 0))

\* the pattern rows tried for a domain: '*.' + '.'.join(parts[i:])
RECURSIVE PatternRowFrom(_, _, _)
PatternRowFrom(table, domain, i) ==
  IF i > Len(domain) THEN "None"
  ELSE LET pattern == <<"*">> \o SubSeq(domain, i, Len(domain)) IN
       IF pattern \in TrustKeys /\ table[pattern].present /\ table[pattern].tld_type_bonus > 0
       THEN pattern
       ELSE PatternRowFrom(table, domain, i + 1)

\* the key of the row _get_domain_trust_profile returns: the domain's own
\* row, else the first matching pattern row with a TLD bonus, else None
_get_domain_trust_profile(table, domain) ==
  IF table[domain].present THEN domain ELSE PatternRowFrom(table, domain, 1)

\* what the connection does in one call: it works, it cannot be opened, or
\* the UPDATE / INSERT raises sqlite3.Error
DbOutcomes == {"ok", "no_conn", "write_error"}

_ensure_domain_profile(domain, is_https, age, db) ==
  LET found == IF db = "no_conn" THEN "None"
               ELSE _get_domain_trust_profile(trust.table, domain)
      score == provisional_score(domain, is_https, age)
  IN
  /\ found # "None" => trust.table[found].reference_count < MaxReferences
  /\ IF db = "no_conn"
     THEN trust' = [trust EXCEPT !.returned =
            [domain |-> domain, trust_score |-> score,
             source_trust_type |-> "provisional_no_db_conn"]]
     ELSE IF found # "None"
     THEN trust' = [trust EXCEPT
            !.table[found].reference_count = IF db = "ok" THEN @ + 1 ELSE @,
            !.returned =
              [domain |-> domain, trust_score |-> trust.table[found].trust_score,
               source_trust_type |-> IF Head(found) = "*" THEN "tld_pattern"
                                     ELSE "specific_db_entry"]]
     ELSE trust' = [trust EXCEPT
            !.table[domain] =
              IF db = "ok"
              THEN [present |-> TRUE, trust_score |-> score, is_https |-> is_https,
                    domain_age_days |-> age, reference_count |-> 1,
                    tld_type_bonus |-> 0]
              ELSE @,
            !.returned =
              [domain |-> domain, trust_score |-> score,
               source_trust_type |-> IF db = "ok" THEN "newly_discovered"
                                     ELSE "provisional_insert_failed"]]

\* the outbound links of a domain's homepage as the rescoring job weighs
\* them: none scanned, or link_quality_metric * 0.2
LinkBonuses ==
  {[scanned |-> FALSE, bonus |-> 0], [scanned |-> TRUE, bonus |-> 0 - 200],
   [scanned |-> TRUE, bonus |-> 200]}

\* scripts/update_domain_trust_scores.py, calculate_trust_score
calculate_trust_score(profile, link_bonus) ==
  Clamp(0, 1000,
        500 + profile.tld_type_bonus
            + (IF profile.is_https = "True" THEN 100 ELSE 0 - 50)
            + (IF profile.domain_age_days = NoAge THEN 0
               ELSE IF profile.domain_age_days > 1825 THEN 150
               ELSE IF profile.domain_age_days > 730 THEN 100
               ELSE IF profile.domain_age_days < 180 THEN 0 - 100 ELSE 0)
            + (IF link_bonus.scanned THEN link_bonus.bonus ELSE 0 - 20))

\* the rescoring job updates one row that was referenced at least twice:
\* for a pattern row the stored signals are used and no links are scanned,
\* for a domain is_https("https://" + domain) is taken, which is True
update_domain_trust_scores(k, is_https, age, link_bonus) ==
  /\ trust.table[k].present
  /\ trust.table[k].reference_count >= 2
  /\ IF Head(k) = "*"
     THEN /\ is_https = trust.table[k].is_https
          /\ age = trust.table[k].domain_age_days
          /\ ~link_bonus.scanned
     ELSE is_https = "True"
  /\ LET temp_profile_data == [trust.table[k] EXCEPT !.is_https = is_https,
                                                     !.domain_age_days = age]
     IN trust' = [trust EXCEPT !.table[k] =
                    [temp_profile_data EXCEPT
                       !.trust_score = calculate_trust_score(temp_profile_data, link_bonus)]]

\* TLD pattern rows are not written by this service; a table holds none,
\* or *.org with a TLD bonus and a score within [0, 1]
SeededPatternRows ==
  {[NoRow EXCEPT !.present = TRUE, !.trust_score = sc, !.tld_type_bonus = b,
                 !.is_https = h] :
     sc \in {0, 900, 1000}, b \in {200, 600}, h \in {"None", "True"}}

InitTrust ==
  /\ ServiceAtStart
  /\ FtsAtRest
  /\ SseAtRest
  /\ \E row \in SeededPatternRows \cup {NoRow} :
       trust = [IdleTrust EXCEPT !.table[<<"*", "org">>] = row]

NextTrust ==
  /\ \/ \E domain \in TrustDomains, is_https \in {"True", "False"}, age \in AgeDays, db \in DbOutcomes :
          _ensure_domain_profile(domain, is_https, age, db)
     \/ \E k \in TrustKeys, is_https \in {"None", "True", "False"}, age \in AgeDays,
           link_bonus \in LinkBonuses :
          update_domain_trust_scores(k, is_https, age, link_bonus)
  /\ UNCHANGED <<serviceVars, fts, sse>>

SpecTrust == InitTrust /\ [][NextTrust]_vars

InUnitInterval(score) == 0 <= score /\ score <= 1000

\* C31: after any get_or_create call the trust_score it returned and the
\* trust_score of every row of domain_trust_profiles, the matching one
\* included, lie within [0, 1].
C31_TrustScoreInUnitInterval ==
  /\ trust.returned.source_trust_type # "none" => InUnitInterval(trust.returned.trust_score)
  /\ \A k \in TrustKeys : trust.table[k].present => InUnitInterval(trust.table[k].trust_score)

\* a pattern row rescored up to the clamp has been returned for a domain,
\* next to a row that get_or_create inserted
C31_Witness ==
  /\ trust.returned.source_trust_type = "tld_pattern"
  /\ trust.returned.trust_score = 1000
  /\ trust.table[<<"*", "org">>].reference_count >= 2
  /\ trust.table[<<"site", "com">>].present

====
